---- MODULE Spec2Model ----
(***************************************************************************)
(* A model of the directed-graph ERGM estimation demo of EstimNetDirected  *)
(* (src/pythonDemo): the Digraph store with its three two-path matrices,   *)
(* the Pajek loader, the basic Metropolis-Hastings sampler and Algorithm   *)
(* S.                                                                      *)
(***************************************************************************)
EXTENDS Integers, Sequences, FiniteSets, TLC

(***************************************************************************)
(* Bounds of the model.                                                    *)
(***************************************************************************)
\* number of nodes n of the graph (the "*vertices n" line)
NumNodes == 3

\* proposals per BasicSampler call (the program sets 1000)
sampler_m == 2

\* largest number M1 of iterations Algorithm S is run with
MaxM1 == 2

\* outer iterations of Algorithm EE (the program sets 500)
Mouter == 2

\* largest number M of inner iterations Algorithm EE is run with
MaxM == 1

\* largest number of lines a network file holds after its first line
MaxLines == 4

\* the inner steps of a call of algorithm_EE by a client, Mouter * M, are at
\* most MaxEESteps
MaxEESteps == 2

Nodes == 0 .. (NumNodes - 1)

\* Python's None as the value of an attribute list that was not loaded: a
\* loaded list has n >= 2 entries, so the empty list stands for no list
None == << >>

VARIABLES
    G,                 \* Digraph.G: out-adjacency, node -> set of out-neighbours
    Grev,              \* Digraph.Grev: in-adjacency, node -> set of in-neighbours
    InTwoPathMatrix,   \* Digraph.InTwoPathMatrix
    OutTwoPathMatrix,  \* Digraph.OutTwoPathMatrix
    MixTwoPathMatrix,  \* Digraph.MixTwoPathMatrix
    binattr,           \* Digraph.binattr: None or a list of ints by node
    catattr,           \* Digraph.catattr: None or a list of ints by node
    pc,                \* position of the program
    exc,               \* the exception that ended the program ("" while none)
    sampler,           \* BasicSampler's frame: its parameters and locals
    ret,               \* the tuple BasicSampler returned last
    algS,              \* algorithm_S's frame: its parameters and locals
    algSret,           \* the tuple algorithm_S returned
    algEE,             \* algorithm_EE's frame: its parameters and locals
    algEEret,          \* the theta algorithm_EE returned
    dzA_outfile,       \* the lines written to the dzA trace file
    theta_outfile,     \* the lines written to the theta trace file
    input,             \* the network file as read so far
    probe,             \* a client's evaluation of the statistics at a pair
    lastOp,            \* history: the last Digraph mutator called ("new" at first)
    hist               \* history of the calls in progress

graphvars == <<G, Grev, InTwoPathMatrix, OutTwoPathMatrix, MixTwoPathMatrix>>

vars == <<G, Grev, InTwoPathMatrix, OutTwoPathMatrix, MixTwoPathMatrix,
          binattr, catattr, pc, exc, sampler, ret, algS, algSret, algEE,
          algEEret, theta_outfile, dzA_outfile, input, probe, lastOp, hist>>

\* what the steps of BasicSampler leave alone
othervars == <<algS, algSret, algEE, algEEret, theta_outfile, dzA_outfile,
               input>>

\* what the steps of algorithm_S leave alone
eevars == <<algEE, algEEret, dzA_outfile>>

(***************************************************************************)
(* The Digraph object as a value: the fields the mutators read and write.  *)
(***************************************************************************)
ZeroMatrix == [p \in Nodes \X Nodes |-> 0]

EmptyAdj == [v \in Nodes |-> {}]

\* lines 77-81 of Digraph.__init__: empty graph on n nodes, zero matrices
EmptyGraph ==
    [G |-> EmptyAdj, Grev |-> EmptyAdj,
     InTwoPathMatrix |-> ZeroMatrix,
     OutTwoPathMatrix |-> ZeroMatrix,
     MixTwoPathMatrix |-> ZeroMatrix]

\* the current Digraph
Cur ==
    [G |-> G, Grev |-> Grev,
     InTwoPathMatrix |-> InTwoPathMatrix,
     OutTwoPathMatrix |-> OutTwoPathMatrix,
     MixTwoPathMatrix |-> MixTwoPathMatrix]

\* the Digraph becomes g
SetGraph(g) ==
    /\ G' = g.G
    /\ Grev' = g.Grev
    /\ InTwoPathMatrix' = g.InTwoPathMatrix
    /\ OutTwoPathMatrix' = g.OutTwoPathMatrix
    /\ MixTwoPathMatrix' = g.MixTwoPathMatrix

numNodes(g) == Cardinality(DOMAIN g.G)

isArc(g, i, j) == j \in g.G[i]

outdegree(g, i) == Cardinality(g.G[i])

indegree(g, i) == Cardinality(g.Grev[i])

RECURSIVE SumOver(_, _)
SumOver(f, D) ==
    IF D = {} THEN 0
    ELSE LET x == CHOOSE y \in D : TRUE
         IN f[x] + SumOver(f, D \ {x})

numArcs(g) == SumOver([v \in DOMAIN g.G |-> Cardinality(g.G[v])], DOMAIN g.G)

(***************************************************************************)
(* updateTwoPathMatrices: the three updates of the loop body for node v,   *)
(* then the loop over v = 0 .. n-1, which skips v = i and v = j.           *)
(***************************************************************************)
\* if self.isArc(i, v): OutTwoPathMatrix[v,j] += incval; [j,v] += incval
updateOut(g, i, j, incval, v) ==
    IF isArc(g, i, v)
    THEN LET out1 == [g.OutTwoPathMatrix EXCEPT ![v, j] = @ + incval]
         IN [out1 EXCEPT ![j, v] = @ + incval]
    ELSE g.OutTwoPathMatrix

\* a one-sided update: the cell [i,v] is forgotten
updateIn_OneSided(g, i, j, incval, v) ==
    IF isArc(g, v, j)
    THEN [g.InTwoPathMatrix EXCEPT ![v, i] = @ + incval]
    ELSE g.InTwoPathMatrix

\* if self.isArc(v, j): InTwoPathMatrix[v,i] += incval; [i,v] += incval
updateIn(g, i, j, incval, v) ==
    IF isArc(g, v, j)
    THEN LET in1 == [g.InTwoPathMatrix EXCEPT ![v, i] = @ + incval]
         IN [in1 EXCEPT ![i, v] = @ + incval]
    ELSE g.InTwoPathMatrix

\* the arc tests of the two updates taken in the wrong direction
updateMix_Reversed(g, i, j, incval, v) ==
    LET mix1 == [g.MixTwoPathMatrix EXCEPT
                    ![v, j] = @ + (IF isArc(g, i, v) THEN 1 ELSE 0) * incval]
    IN [mix1 EXCEPT
            ![i, v] = @ + (IF isArc(g, v, j) THEN 1 ELSE 0) * incval]

\* MixTwoPathMatrix[v,j] += int(isArc(v,i))*incval;
\* MixTwoPathMatrix[i,v] += int(isArc(j,v))*incval
updateMix(g, i, j, incval, v) ==
    LET mix1 == [g.MixTwoPathMatrix EXCEPT
                    ![v, j] = @ + (IF isArc(g, v, i) THEN 1 ELSE 0) * incval]
    IN [mix1 EXCEPT
            ![i, v] = @ + (IF isArc(g, j, v) THEN 1 ELSE 0) * incval]

updateBody(g, i, j, incval, v) ==
    [g EXCEPT !.OutTwoPathMatrix = updateOut(g, i, j, incval, v),
              !.InTwoPathMatrix = updateIn(g, i, j, incval, v),
              !.MixTwoPathMatrix = updateMix(g, i, j, incval, v)]

\* the loop without its "if v == i or v == j: continue"
RECURSIVE updateLoop_NoSkip(_, _, _, _, _)
updateLoop_NoSkip(g, i, j, incval, v) ==
    IF v >= numNodes(g) THEN g
    ELSE updateLoop_NoSkip(updateBody(g, i, j, incval, v), i, j, incval, v + 1)

RECURSIVE updateLoop(_, _, _, _, _)
updateLoop(g, i, j, incval, v) ==
    IF v >= numNodes(g) THEN g
    ELSE IF v = i \/ v = j THEN updateLoop(g, i, j, incval, v + 1)
    ELSE updateLoop(updateBody(g, i, j, incval, v), i, j, incval, v + 1)

updateTwoPathMatrices(g, i, j, isAdd) ==
    updateLoop(g, i, j, IF isAdd THEN 1 ELSE -1, 0)

\* the reversed adjacency is forgotten
setAdjacency_NoRev(g, i, j) ==
    [g EXCEPT !.G[i] = @ \cup {j}]

\* G[i][j] = 1; Grev[j][i] = 1
setAdjacency(g, i, j) ==
    [g EXCEPT !.G[i] = @ \cup {j}, !.Grev[j] = @ \cup {i}]

\* G[i].pop(j); Grev[j].pop(i)
popAdjacency(g, i, j) ==
    [g EXCEPT !.G[i] = @ \ {j}, !.Grev[j] = @ \ {i}]

insertArc(g, i, j) == updateTwoPathMatrices(setAdjacency(g, i, j), i, j, TRUE)

\* the arc is popped and the matrices are left as they were
removeArc_NoUpdate(g, i, j) == popAdjacency(g, i, j)

removeArc(g, i, j) == updateTwoPathMatrices(popAdjacency(g, i, j), i, j, FALSE)

(***************************************************************************)
(* Change statistics (changeStatisticsDirected.py).  A statistic is called *)
(* with the Digraph g, its attribute list battr (G.binattr) and the        *)
(* candidate arc i -> j.                                                   *)
(***************************************************************************)
\* the statistics the estimation is run with, in order
changestats_func_list == <<"changeArc", "changeReciprocity", "changeSender">>

Stats == 1 .. Len(changestats_func_list)

ZeroVec == [l \in Stats |-> 0]

changeArc(g, battr, i, j) == 1

\* the arc tested is i -> j itself
changeReciprocity_Forward(g, battr, i, j) == IF isArc(g, i, j) THEN 1 ELSE 0

changeReciprocity(g, battr, i, j) == IF isArc(g, j, i) THEN 1 ELSE 0

changeSender(g, battr, i, j) == battr[i]

\* G.binattr[i] with G.binattr None raises TypeError
statRaises(name, battr) == name = "changeSender" /\ battr = None

callStat(name, g, battr, i, j) ==
    CASE name = "changeArc" -> changeArc(g, battr, i, j)
      [] name = "changeReciprocity" -> changeReciprocity(g, battr, i, j)
      [] name = "changeSender" -> changeSender(g, battr, i, j)

(***************************************************************************)
(* The other statistics, and all of them as a library.  With lambda0 = 2   *)
(* a power (1-1/lambda0)**k is a dyadic fraction, which a float holds      *)
(* exactly; a value of the library is held as a whole number of units of   *)
(* 1/StatScale, StatScale = 2 * lambda0^MaxExp: lambda0^MaxExp for the     *)
(* powers with k <= MaxExp, and 2 for the factor 0.5 of                    *)
(* changeAltTwoPathsTD.  A degree or a two-path count of a graph of        *)
(* NumNodes nodes is at most NumNodes.                                     *)
(***************************************************************************)
\* decay factor for alternating statistics
lambda0 == 2

MaxExp == NumNodes

StatScale == 2 * lambda0^MaxExp

\* the power taken one step too far
decayPow_OffByOne(k) == 2 * (lambda0 - 1)^(k + 1) * lambda0^(MaxExp - k - 1)

\* (1-1/lambda0)**k = (lambda0-1)^k / lambda0^k, in units of 1/StatScale
decayPow(k) == 2 * (lambda0 - 1)^k * lambda0^(MaxExp - k)

\* the difference taken the other way round
alternating_Negated(k) == lambda0 * (decayPow(k) - StatScale)

\* lambda0 * (1 - (1-1/lambda0)**k), in units of 1/StatScale
alternating(k) == lambda0 * (StatScale - decayPow(k))

changeAltInStars(g, i, j) == alternating(indegree(g, j))

changeAltOutStars(g, i, j) == alternating(outdegree(g, i))

\* both arms test the arc v -> j
changeAltKTrianglesT_BothArmsVtoJ(g, i, j) ==
    SumOver([v \in Nodes |-> IF isArc(g, v, j)
                             THEN decayPow(g.MixTwoPathMatrix[<<i, v>>])
                             ELSE 0],
            g.G[i] \ {i, j})
    + SumOver([v \in Nodes |-> IF isArc(g, v, j)
                               THEN decayPow(g.MixTwoPathMatrix[<<v, j>>])
                               ELSE 0],
              g.Grev[i] \ {i, j})
    + alternating(g.MixTwoPathMatrix[<<i, j>>])

\* lines 58-77: the first loop is over the out-neighbours v of i and tests
\* G.isArc(j, v), the second over the in-neighbours v of i and tests
\* G.isArc(v, j)
changeAltKTrianglesT(g, i, j) ==
    SumOver([v \in Nodes |-> IF isArc(g, j, v)
                             THEN decayPow(g.MixTwoPathMatrix[<<i, v>>])
                             ELSE 0],
            g.G[i] \ {i, j})
    + SumOver([v \in Nodes |-> IF isArc(g, v, j)
                               THEN decayPow(g.MixTwoPathMatrix[<<v, j>>])
                               ELSE 0],
              g.Grev[i] \ {i, j})
    + alternating(g.MixTwoPathMatrix[<<i, j>>])

changeAltKTrianglesC(g, i, j) ==
    SumOver([v \in Nodes |-> IF isArc(g, j, v)
                             THEN decayPow(g.MixTwoPathMatrix[<<i, v>>])
                                  + decayPow(g.MixTwoPathMatrix[<<v, j>>])
                             ELSE 0],
            g.Grev[i] \ {i, j})
    + alternating(g.MixTwoPathMatrix[<<j, i>>])

\* the second loop is taken over the out-neighbours of i
changeAltTwoPathsT_OutOfI(g, i, j) ==
    SumOver([v \in Nodes |-> decayPow(g.MixTwoPathMatrix[<<i, v>>])],
            g.G[j] \ {i, j})
    + SumOver([v \in Nodes |-> decayPow(g.MixTwoPathMatrix[<<v, j>>])],
              g.G[i] \ {i, j})

\* lines 95-111: one loop over the out-neighbours of j, one over the
\* in-neighbours of i
changeAltTwoPathsT(g, i, j) ==
    SumOver([v \in Nodes |-> decayPow(g.MixTwoPathMatrix[<<i, v>>])],
            g.G[j] \ {i, j})
    + SumOver([v \in Nodes |-> decayPow(g.MixTwoPathMatrix[<<v, j>>])],
              g.Grev[i] \ {i, j})

changeAltTwoPathsD(g, i, j) ==
    SumOver([v \in Nodes |-> decayPow(g.OutTwoPathMatrix[<<j, v>>])],
            g.G[i] \ {i, j})

\* 0.5 * (T + D): both are even numbers of units
changeAltTwoPathsTD(g, i, j) ==
    (changeAltTwoPathsT(g, i, j) + changeAltTwoPathsD(g, i, j)) \div 2

changeReceiver(g, battr, i, j) == battr[j]

changeInteraction(g, battr, i, j) == battr[i] * battr[j]

\* the four statistics of the categorical attribute return a bool, which
\* the sampler stores in a float array as 1.0 or 0.0
changeMatching(g, cattr, i, j) == IF cattr[i] = cattr[j] THEN 1 ELSE 0

changeMatchingReciprocity(g, cattr, i, j) ==
    IF cattr[i] = cattr[j] /\ isArc(g, j, i) THEN 1 ELSE 0

changeMismatching(g, cattr, i, j) == IF cattr[i] # cattr[j] THEN 1 ELSE 0

changeMismatchingReciprocity(g, cattr, i, j) ==
    IF cattr[i] # cattr[j] /\ isArc(g, j, i) THEN 1 ELSE 0

\* the functions of the library
allChangeStats ==
    {"changeArc", "changeReciprocity", "changeAltInStars", "changeAltOutStars",
     "changeAltKTrianglesT", "changeAltKTrianglesC", "changeAltTwoPathsT",
     "changeAltTwoPathsD", "changeAltTwoPathsTD", "changeSender",
     "changeReceiver", "changeInteraction", "changeMatching",
     "changeMatchingReciprocity", "changeMismatching",
     "changeMismatchingReciprocity"}

\* what a function of the library returns, in units of 1/StatScale
statValue(name, g, battr, cattr, i, j) ==
    CASE name = "changeArc" -> StatScale * changeArc(g, battr, i, j)
      [] name = "changeReciprocity" -> StatScale * changeReciprocity(g, battr, i, j)
      [] name = "changeAltInStars" -> changeAltInStars(g, i, j)
      [] name = "changeAltOutStars" -> changeAltOutStars(g, i, j)
      [] name = "changeAltKTrianglesT" -> changeAltKTrianglesT(g, i, j)
      [] name = "changeAltKTrianglesC" -> changeAltKTrianglesC(g, i, j)
      [] name = "changeAltTwoPathsT" -> changeAltTwoPathsT(g, i, j)
      [] name = "changeAltTwoPathsD" -> changeAltTwoPathsD(g, i, j)
      [] name = "changeAltTwoPathsTD" -> changeAltTwoPathsTD(g, i, j)
      [] name = "changeSender" -> StatScale * changeSender(g, battr, i, j)
      [] name = "changeReceiver" -> StatScale * changeReceiver(g, battr, i, j)
      [] name = "changeInteraction" -> StatScale * changeInteraction(g, battr, i, j)
      [] name = "changeMatching" -> StatScale * changeMatching(g, cattr, i, j)
      [] name = "changeMatchingReciprocity" ->
            StatScale * changeMatchingReciprocity(g, cattr, i, j)
      [] name = "changeMismatching" -> StatScale * changeMismatching(g, cattr, i, j)
      [] name = "changeMismatchingReciprocity" ->
            StatScale * changeMismatchingReciprocity(g, cattr, i, j)

\* every function of the library at the candidate arc i -> j
statValues(g, battr, cattr, i, j) ==
    [name \in allChangeStats |-> statValue(name, g, battr, cattr, i, j)]

\* a client's evaluation of the library at a pair: nothing evaluated yet
NoProbe == [stage |-> "idle", i |-> -1, j |-> -1,
            first |-> [name \in allChangeStats |-> 0],
            second |-> [name \in allChangeStats |-> 0],
            sum |-> [name \in allChangeStats |-> 0]]

(***************************************************************************)
(* Reals.  theta is held as an integer number of units of 1/ThetaScale.    *)
(* Algorithm S adds steps of 0.1 * dzA^2 / sumChangeStats^2, and every     *)
(* statistic of changestats_func_list is 0 or 1 per proposal, so           *)
(* sumChangeStats <= sampler_m and every step is a whole number of units   *)
(* of 0.1 / ThetaDen, ThetaDen the least common multiple of the squares    *)
(* 1, 4, ..., sampler_m^2.                                                 *)
(***************************************************************************)
RECURSIVE Gcd(_, _)
Gcd(a, b) == IF b = 0 THEN a ELSE Gcd(b, a % b)

Lcm(a, b) == (a * b) \div Gcd(a, b)

RECURSIVE LcmSquares(_)
LcmSquares(m) == IF m <= 1 THEN 1 ELSE Lcm(m * m, LcmSquares(m - 1))

ThetaDen == LcmSquares(sampler_m)

ThetaScale == 10 * ThetaDen

\* math.exp(x) raises OverflowError above ln(DBL_MAX) = 709.78..., in 1/100
ExpMaxArgCenti == 70978

\* math.exp(x) is 0.0 below ln(2^-1075) = -745.13..., in 1/100
ExpMinArgCenti == -74514

\* the uniform draw taken from [0, 1]: at total = 0 the draw 1.0 rejects
acceptOutcomes_ClosedInterval(total) ==
    IF total * 100 > ExpMaxArgCenti * ThetaScale THEN {"raise"}
    ELSE IF total > 0 THEN {"accept"}
    ELSE IF total * 100 < ExpMinArgCenti * ThetaScale THEN {"reject"}
    ELSE {"accept", "reject"}

\* what "random.uniform(0, 1) < math.exp(total)" can do, total in units of
\* 1/ThetaScale: the uniform draw lies in [0, 1)
acceptOutcomes(total) ==
    IF total * 100 > ExpMaxArgCenti * ThetaScale THEN {"raise"}
    ELSE IF total >= 0 THEN {"accept"}
    ELSE IF total * 100 < ExpMinArgCenti * ThetaScale THEN {"reject"}
    ELSE {"accept", "reject"}

(***************************************************************************)
(* Floats of algorithm_EE.  Its steps are D0 * 1e-09 * dzA^2 with D0 the   *)
(* result of divisions and of a standard deviation, so theta[l] is held as *)
(* the value algorithm_EE was called with (in units of 1/ThetaScale) plus  *)
(* a drift of which the class is kept: "zero", a finite "pos" or "neg"     *)
(* value, a finite value of unknown sign "unk", "pinf", "ninf" or "nan".   *)
(* The magnitude of a finite drift is not kept; finite values are taken to *)
(* stay within the range of a float and of math.exp.                       *)
(***************************************************************************)
ZeroDrift == [l \in Stats |-> "zero"]

\* a + b
addClass(a, b) ==
    CASE a = "nan" \/ b = "nan" -> "nan"
      [] {a, b} = {"pinf", "ninf"} -> "nan"
      [] a = "pinf" \/ b = "pinf" -> "pinf"
      [] a = "ninf" \/ b = "ninf" -> "ninf"
      [] a = "zero" -> b
      [] b = "zero" -> a
      [] a = b -> a
      [] OTHER -> "unk"

\* the class of the float base + drift, base a known finite value
thetaClass(base, drift) ==
    CASE drift \in {"nan", "pinf", "ninf", "unk"} -> drift
      [] drift = "zero" -> IF base > 0 THEN "pos"
                           ELSE IF base < 0 THEN "neg" ELSE "zero"
      [] drift = "pos" -> IF base >= 0 THEN "pos" ELSE "unk"
      [] drift = "neg" -> IF base <= 0 THEN "neg" ELSE "unk"

\* the class of x * m for an integer m: inf * 0 is nan
timesClass(x, m) ==
    CASE x = "nan" -> "nan"
      [] m = 0 -> IF x \in {"pinf", "ninf"} THEN "nan" ELSE "zero"
      [] m > 0 -> x
      [] OTHER -> CASE x = "pos" -> "neg"
                    [] x = "neg" -> "pos"
                    [] x = "pinf" -> "ninf"
                    [] x = "ninf" -> "pinf"
                    [] OTHER -> x

\* np.sum of terms of the classes cs
sumClass(cs) ==
    CASE "nan" \in cs \/ {"pinf", "ninf"} \subseteq cs -> "nan"
      [] "pinf" \in cs -> "pinf"
      [] "ninf" \in cs -> "ninf"
      [] "unk" \in cs \/ {"pos", "neg"} \subseteq cs -> "unk"
      [] "pos" \in cs -> "pos"
      [] "neg" \in cs -> "neg"
      [] OTHER -> "zero"

\* what "random.uniform(0, 1) < math.exp(total)" can do for a total of
\* class c: math.exp(inf) is inf, math.exp(-inf) is 0.0, math.exp(nan) is
\* nan and no float is less than nan
acceptOutcomesOfClass(c) ==
    CASE c \in {"zero", "pos", "pinf"} -> {"accept"}
      [] c \in {"ninf", "nan"} -> {"reject"}
      [] OTHER -> {"accept", "reject"}

(***************************************************************************)
(* BasicSampler.                                                           *)
(***************************************************************************)
\* the frame outside a call; i and j are unassigned (-1) before a proposal
IdleFrame ==
    [theta |-> ZeroVec, drift |-> ZeroDrift, performMove |-> FALSE, k |-> 0,
     i |-> -1, j |-> -1,
     isDelete |-> FALSE, accepted |-> 0,
     addChangeStats |-> ZeroVec, delChangeStats |-> ZeroVec,
     retpc |-> "client_ret"]

NoRet == [acceptance_rate |-> <<0, 1>>,
          addChangeStats |-> ZeroVec, delChangeStats |-> ZeroVec]

\* history: the Digraph at the entry of algorithm_S (Sentry), at the entry
\* of BasicSampler (entry) and before the proposal in progress (propStart),
\* the accepted proposals of the call in order (accLog) and what the
\* uniform draw of the last proposal decided (outcome); of a call of
\* algorithm_EE (ee), the Digraph and D0 at its entry, the sum over the
\* accepted proposals of their change statistics, added for an arc added
\* and subtracted for an arc deleted (sum), and how the accepted proposals
\* pair up: the accepted proposal that waits for its inverse (pending),
\* whether every accepted proposal so far was followed at once by its
\* accepted inverse or waits for it (undone), whether there was such a pair
\* (paired), whether the two of every pair had equal change statistics
\* (equal) and whether the two of some pair were accepted in different
\* calls of BasicSampler (split)
NoMove == [i |-> -1, j |-> -1, isDelete |-> FALSE, changestats |-> ZeroVec,
           t |-> -1]

NoEEHist == [entry |-> EmptyGraph, D0 |-> [l \in Stats |-> "pos"],
             sum |-> ZeroVec, pending |-> NoMove, undone |-> TRUE,
             paired |-> FALSE, equal |-> TRUE, split |-> FALSE]

NoHist == [Sentry |-> EmptyGraph, entry |-> EmptyGraph,
           propStart |-> EmptyGraph, accLog |-> << >>, outcome |-> "none",
           ee |-> NoEEHist]

\* lines 60-64: entry of BasicSampler(G, changestats_func_list, theta,
\* performMove), theta being th plus a drift of classes dr, to return to retpc
SamplerCallDrift(th, dr, pm, retpc) ==
    /\ sampler' = [IdleFrame EXCEPT !.theta = th, !.drift = dr,
                                    !.performMove = pm, !.retpc = retpc]
    /\ hist' = [hist EXCEPT !.entry = Cur, !.propStart = Cur,
                            !.accLog = << >>, !.outcome = "none"]
    /\ pc' = "sampler_loop"

\* the same with a theta that is known exactly
SamplerCall(th, pm, retpc) == SamplerCallDrift(th, ZeroDrift, pm, retpc)

\* two draws that may give the same node twice
randomSample_WithReplacement(population) == population \X population

\* line 68: random.sample(population, 2), two draws without replacement, in
\* the order drawn
randomSample(population) ==
    {p \in population \X population : p[1] # p[2]}

\* lines 65-72: the next proposal is drawn, an existing arc is removed
SamplerPropose ==
    /\ pc = "sampler_loop"
    /\ sampler.k < sampler_m
    /\ \E p \in randomSample(0 .. (numNodes(Cur) - 1)) :
          LET i == p[1]
              j == p[2]
              isDelete == isArc(Cur, i, j)
          IN IF i = j
             THEN /\ sampler' = [sampler EXCEPT !.i = i, !.j = j]
                  /\ exc' = "AssertionError"
                  /\ pc' = "raised"
                  /\ UNCHANGED <<graphvars, lastOp, hist>>
             ELSE /\ SetGraph(IF isDelete THEN removeArc(Cur, i, j) ELSE Cur)
                  /\ lastOp' = IF isDelete THEN "removeArc" ELSE lastOp
                  /\ sampler' = [sampler EXCEPT !.i = i, !.j = j,
                                                !.isDelete = isDelete]
                  /\ hist' = [hist EXCEPT !.propStart = Cur,
                                          !.outcome = "pending"]
                  /\ pc' = "sampler_stats"
                  /\ exc' = exc
    /\ UNCHANGED <<binattr, catattr, probe, ret, othervars>>

\* lines 76-78: the change statistics of the proposal
changestatsOf(g, battr, i, j) ==
    [l \in Stats |-> callStat(changestats_func_list[l], g, battr, i, j)]

\* lines 80-81: total = np.sum(theta * changeSignMul * changestats)
totalOf(th, isDelete, changestats) ==
    LET changeSignMul == IF isDelete THEN -1 ELSE 1
    IN SumOver([l \in Stats |-> th[l] * changeSignMul * changestats[l]], Stats)

\* lines 80-82: what the acceptance test of a proposal can do
proposalOutcomes(s, changestats) ==
    IF s.drift = ZeroDrift
    THEN acceptOutcomes(totalOf(s.theta, s.isDelete, changestats))
    ELSE LET changeSignMul == IF s.isDelete THEN -1 ELSE 1
         IN acceptOutcomesOfClass(sumClass(
                {timesClass(thetaClass(s.theta[l], s.drift[l]),
                            changeSignMul * changestats[l]) : l \in Stats}))

\* an accepted delete is never put back
acceptGraph_NoUndo(g, s) ==
    IF ~s.isDelete THEN
        IF s.performMove THEN insertArc(g, s.i, s.j) ELSE g
    ELSE g

\* an accepted add is inserted whatever performMove says
acceptGraph_AlwaysAdd(g, s) ==
    IF ~s.isDelete THEN insertArc(g, s.i, s.j)
    ELSE IF s.performMove THEN g ELSE insertArc(g, s.i, s.j)

\* lines 84-94: the graph after an accepted proposal
acceptGraph(g, s) ==
    IF s.performMove THEN
        IF ~s.isDelete THEN insertArc(g, s.i, s.j) ELSE g
    ELSE
        IF s.isDelete THEN insertArc(g, s.i, s.j) ELSE g

\* a rejected delete is not reversed
rejectGraph_NoUndo(g, s) == g

\* lines 99-100: the graph after a rejected proposal
rejectGraph(g, s) ==
    IF s.isDelete THEN insertArc(g, s.i, s.j) ELSE g

\* every accepted proposal is accumulated as an add move
acceptStats_AllAdd(s, changestats) ==
    [s EXCEPT !.accepted = @ + 1,
              !.addChangeStats = [l \in Stats |-> @[l] + changestats[l]]]

\* lines 83, 95-98: the counters after an accepted proposal
acceptStats(s, changestats) ==
    IF s.isDelete
    THEN [s EXCEPT !.accepted = @ + 1,
                   !.delChangeStats = [l \in Stats |-> @[l] + changestats[l]]]
    ELSE [s EXCEPT !.accepted = @ + 1,
                   !.addChangeStats = [l \in Stats |-> @[l] + changestats[l]]]

\* lines 76-100: the change statistics are computed, the proposal is
\* accepted or rejected; a statistic or math.exp may raise
SamplerDecide ==
    /\ pc = "sampler_stats"
    /\ IF \E l \in Stats : statRaises(changestats_func_list[l], binattr)
       THEN /\ exc' = "TypeError"
            /\ pc' = "raised"
            /\ UNCHANGED <<graphvars, sampler, lastOp, hist>>
       ELSE LET changestats == changestatsOf(Cur, binattr, sampler.i, sampler.j)
            IN IF \E l \in Stats : changestats[l] < 0
               THEN /\ exc' = "AssertionError"
                    /\ pc' = "raised"
                    /\ UNCHANGED <<graphvars, sampler, lastOp, hist>>
               ELSE \E outcome \in proposalOutcomes(sampler, changestats) :
                      CASE outcome = "raise" ->
                              /\ exc' = "OverflowError"
                              /\ pc' = "raised"
                              /\ UNCHANGED <<graphvars, sampler, lastOp, hist>>
                        [] outcome = "accept" ->
                              /\ SetGraph(acceptGraph(Cur, sampler))
                              /\ lastOp' = IF sampler.performMove = sampler.isDelete
                                           THEN lastOp ELSE "insertArc"
                              /\ sampler' = [acceptStats(sampler, changestats)
                                                EXCEPT !.k = @ + 1]
                              /\ hist' = [hist EXCEPT
                                   !.outcome = "accept",
                                   !.accLog = Append(@,
                                       [i |-> sampler.i, j |-> sampler.j,
                                        isDelete |-> sampler.isDelete,
                                        changestats |-> changestats])]
                              /\ pc' = "sampler_loop"
                              /\ exc' = exc
                        [] outcome = "reject" ->
                              /\ SetGraph(rejectGraph(Cur, sampler))
                              /\ lastOp' = IF sampler.isDelete
                                           THEN "insertArc" ELSE lastOp
                              /\ sampler' = [sampler EXCEPT !.k = @ + 1]
                              /\ hist' = [hist EXCEPT !.outcome = "reject"]
                              /\ pc' = "sampler_loop"
                              /\ exc' = exc
    /\ UNCHANGED <<binattr, catattr, probe, ret, othervars>>

\* lines 102-103: the loop is over, the tuple is returned; acceptance_rate
\* = float(accepted) / sampler_m is held as the pair <<accepted, sampler_m>>
SamplerReturn ==
    /\ pc = "sampler_loop"
    /\ sampler.k >= sampler_m
    /\ ret' = [acceptance_rate |-> <<sampler.accepted, sampler_m>>,
               addChangeStats |-> sampler.addChangeStats,
               delChangeStats |-> sampler.delChangeStats]
    /\ pc' = sampler.retpc
    /\ UNCHANGED <<graphvars, binattr, catattr, probe, exc, sampler, lastOp, hist, othervars>>

(***************************************************************************)
(* algorithm_S.  D0 holds sums of squares of integers; Dmean[l] =          *)
(* sampler_m / D0[l] is held as the pair <<sampler_m, D0[l]>>, which numpy *)
(* evaluates to inf when D0[l] is 0.                                       *)
(***************************************************************************)
IdleS == [M1 |-> 0, t |-> 0, theta |-> ZeroVec, D0 |-> ZeroVec,
          retpc |-> "client_S_ret"]

NoSret == [theta |-> ZeroVec, Dmean |-> [l \in Stats |-> <<0, 1>>]]

\* np.sign
sign(x) == IF x > 0 THEN 1 ELSE IF x < 0 THEN -1 ELSE 0

\* da[l] = ACA / sumChangeStats[l], the sum not squared
daTimesSquare_NotSquared(dzA, sumChangeStats) ==
    [l \in Stats |->
        IF sumChangeStats[l] # 0
        THEN (ThetaDen * dzA[l] * dzA[l]) \div sumChangeStats[l]
        ELSE 0]

\* lines 138-141: da[l] * dzA[l]**2 in units of 1/ThetaScale, da[l] =
\* ACA / sumChangeStats[l]**2 with ACA = 0.1 (ThetaDen units), or 0
daTimesSquare(dzA, sumChangeStats) ==
    [l \in Stats |->
        IF sumChangeStats[l] # 0
        THEN (ThetaDen * dzA[l] * dzA[l])
                 \div (sumChangeStats[l] * sumChangeStats[l])
        ELSE 0]

\* dzA taken as addChangeStats - delChangeStats
thetaStepS_WrongSign(addChangeStats, delChangeStats) ==
    LET dzA == [l \in Stats |-> addChangeStats[l] - delChangeStats[l]]
        sumChangeStats == [l \in Stats |-> addChangeStats[l] + delChangeStats[l]]
        dsq == daTimesSquare(dzA, sumChangeStats)
    IN [l \in Stats |->
          LET theta_step == sign(dzA[l]) * dsq[l]
          IN IF theta_step > ThetaDen THEN ThetaDen ELSE theta_step]

\* lines 133-144: theta_step, in units of 1/ThetaScale; MAXSTEP = 0.1 is
\* ThetaDen units, and dzAmean = dzA / sampler_m has the sign of dzA
thetaStepS(addChangeStats, delChangeStats) ==
    LET dzA == [l \in Stats |-> delChangeStats[l] - addChangeStats[l]]
        sumChangeStats == [l \in Stats |-> addChangeStats[l] + delChangeStats[l]]
        dsq == daTimesSquare(dzA, sumChangeStats)
        MAXSTEP == ThetaDen
    IN [l \in Stats |->
          LET theta_step == sign(dzA[l]) * dsq[l]
          IN IF theta_step > MAXSTEP THEN MAXSTEP ELSE theta_step]

\* lines 123-126: entry of algorithm_S(G, changestats_func_list, M1,
\* theta_outfile), to return to retpc
SCall(M1, retpc) ==
    /\ algS' = [IdleS EXCEPT !.M1 = M1, !.retpc = retpc]
    /\ hist' = [hist EXCEPT !.Sentry = Cur]
    /\ pc' = "S_loop"

\* lines 127-132: the next iteration calls BasicSampler with performMove
\* False
SIterate ==
    /\ pc = "S_loop"
    /\ algS.t < algS.M1
    /\ SamplerCall(algS.theta, FALSE, "S_ret")
    /\ UNCHANGED <<graphvars, binattr, catattr, probe, exc, ret, algS, algSret, theta_outfile,
                   input, lastOp, eevars>>

\* the row is numbered t
thetaRowS_NoShift(t, M1, theta, acceptance_rate) ==
    [kind |-> "data", t |-> t, theta |-> theta,
     acceptance_rate |-> acceptance_rate]

\* lines 146-147: the row str(t-M1) theta acceptance_rate
thetaRowS(t, M1, theta, acceptance_rate) ==
    [kind |-> "data", t |-> t - M1, theta |-> theta,
     acceptance_rate |-> acceptance_rate]

\* lines 133-147: D0 and theta are updated from the tuple BasicSampler
\* returned and a row of the theta trace is written
SUpdate ==
    /\ pc = "S_ret"
    /\ LET dzA == [l \in Stats |-> ret.delChangeStats[l] - ret.addChangeStats[l]]
           sumChangeStats ==
               [l \in Stats |-> ret.addChangeStats[l] + ret.delChangeStats[l]]
           theta_step == thetaStepS(ret.addChangeStats, ret.delChangeStats)
           theta == [l \in Stats |-> algS.theta[l] + theta_step[l]]
       IN IF \E l \in Stats : sumChangeStats[l] < 0
          THEN /\ exc' = "AssertionError"
               /\ pc' = "raised"
               /\ UNCHANGED <<algS, theta_outfile>>
          ELSE /\ algS' = [algS EXCEPT !.D0 = [l \in Stats |-> @[l] + dzA[l] * dzA[l]],
                                 !.theta = theta,
                                 !.t = @ + 1]
               /\ theta_outfile' = Append(theta_outfile,
                      thetaRowS(algS.t, algS.M1, theta, ret.acceptance_rate))
               /\ pc' = "S_loop"
               /\ exc' = exc
    /\ UNCHANGED <<graphvars, binattr, catattr, probe, sampler, ret, algSret, input, lastOp, hist, eevars>>

\* lines 148-149: the loop is over, (theta, Dmean) is returned
SReturn ==
    /\ pc = "S_loop"
    /\ algS.t >= algS.M1
    /\ algSret' = [theta |-> algS.theta,
                   Dmean |-> [l \in Stats |-> <<sampler_m, algS.D0[l]>>]]
    /\ pc' = algS.retpc
    /\ UNCHANGED <<graphvars, binattr, catattr, probe, exc, sampler, ret, algS, theta_outfile,
                   input, lastOp, hist, eevars>>

(***************************************************************************)
(* algorithm_EE.  dzA is a vector of integers.  D0[l] is held by its       *)
(* class: Dmean[l] = sampler_m / D0[l] of algorithm_S is a finite positive *)
(* float ("pos"), or inf when the divisor is 0 ("pinf"), and the update at *)
(* the end of an outer iteration can make it "nan".  thetamatrix is held   *)
(* per coordinate by what np.mean and np.std need of its rows: "none" (no  *)
(* row), "same" (finite and equal rows), "varied" (finite rows, not all    *)
(* equal) or "nonfinite" (a row is inf or nan).                            *)
(***************************************************************************)
IdleEE == [Mouter |-> 0, M |-> 0, touter |-> 0, tinner |-> 0, t |-> 0,
           dzA |-> ZeroVec, theta |-> ZeroVec, drift |-> ZeroDrift,
           D0 |-> [l \in Stats |-> "pos"],
           theta_step |-> ZeroDrift,
           thetamatrix |-> [l \in Stats |-> "none"],
           retpc |-> "client_EE_ret"]

NoEEret == [theta |-> ZeroVec, drift |-> ZeroDrift]

\* Dmean[l] = sampler_m / D0[l], D0[l] >= 0 a sum of squares
classOfDmean(Dmean) ==
    [l \in Stats |-> IF Dmean[l][2] = 0 THEN "pinf" ELSE "pos"]

\* lines 185-186: the class of -np.sign(dzA) * (D0 * ACA) * dzA**2;
\* 0 * inf is nan
stepClassEE(dzA, D0) ==
    CASE D0 = "nan" -> "nan"
      [] dzA = 0 -> IF D0 = "pos" THEN "zero" ELSE "nan"
      [] D0 = "pos" -> IF dzA > 0 THEN "neg" ELSE "pos"
      [] OTHER -> IF dzA > 0 THEN "ninf" ELSE "pinf"

\* line 191: thetamatrix[tinner,] = theta, theta having moved by a step of
\* class step since the row before
rowClass(rows, drift, step) ==
    CASE rows = "nonfinite" \/ drift \in {"nan", "pinf", "ninf"} -> "nonfinite"
      [] rows = "none" -> "same"
      [] step # "zero" -> "varied"
      [] OTHER -> rows

\* lines 193-197: the class of D0 * (compC / DD), DD = thetasd /
\* abs(thetamean) with abs(thetamean) >= 1: np.mean and np.std of no row or
\* of a row that is not finite are nan, np.std of equal rows is 0 and
\* compC / 0 is inf
D0ClassAfter(D0, rows) ==
    CASE D0 = "nan" \/ rows \in {"none", "nonfinite"} -> "nan"
      [] rows = "same" -> "pinf"
      [] OTHER -> D0

\* lines 188-189: the row str(t) theta acceptance_rate
thetaRowEE(t, theta, drift, acceptance_rate) ==
    [kind |-> "data", t |-> t, theta |-> theta, drift |-> drift,
     acceptance_rate |-> acceptance_rate]

\* the row is numbered as the step to come
dzARow_NextT(t, dzA) == [kind |-> "data", t |-> t + 1, dzA |-> dzA]

\* line 190: the row str(t) dzA
dzARow(t, dzA) == [kind |-> "data", t |-> t, dzA |-> dzA]

\* history: the accepted proposal m of the inner step t joins the history h
\* of the call of algorithm_EE
eeHistMove(h, m, t) ==
    LET signed == [l \in Stats |-> IF m.isDelete THEN -m.changestats[l]
                                   ELSE m.changestats[l]]
        summed == [h EXCEPT !.sum = [l \in Stats |-> @[l] + signed[l]]]
        inverse == /\ h.pending.i = m.i
                   /\ h.pending.j = m.j
                   /\ h.pending.isDelete # m.isDelete
    IN  CASE ~h.undone -> summed
          [] h.pending = NoMove ->
                [summed EXCEPT !.pending = [i |-> m.i, j |-> m.j,
                                            isDelete |-> m.isDelete,
                                            changestats |-> m.changestats,
                                            t |-> t]]
          [] inverse ->
                [summed EXCEPT
                    !.pending = NoMove,
                    !.paired = TRUE,
                    !.equal = @ /\ m.changestats = h.pending.changestats,
                    !.split = @ \/ h.pending.t # t]
          [] OTHER -> [summed EXCEPT !.pending = NoMove, !.undone = FALSE]

\* history: the accepted proposals of a call of BasicSampler, in order
RECURSIVE eeHistCall(_, _, _)
eeHistCall(h, log, t) ==
    IF log = << >> THEN h
    ELSE eeHistCall(eeHistMove(h, Head(log), t), Tail(log), t)

\* lines 171-175: entry of algorithm_EE(G, changestats_func_list, theta, D0,
\* Mouter, M, theta_outfile, dzA_outfile), to return to retpc
EECall(theta, D0, outer, inner, retpc) ==
    /\ algEE' = [IdleEE EXCEPT !.theta = theta, !.D0 = D0, !.Mouter = outer,
                               !.M = inner, !.retpc = retpc]
    /\ hist' = [hist EXCEPT !.ee = [NoEEHist EXCEPT !.entry = Cur, !.D0 = D0]]
    /\ pc' = "EE_outer"

\* dzA is zeroed as well
outerStart_ZeroDzA(ee) ==
    [ee EXCEPT !.tinner = 0, !.thetamatrix = [l \in Stats |-> "none"],
               !.dzA = ZeroVec]

\* lines 176-178: thetamatrix = np.empty((M, n)) and tinner starts at 0;
\* dzA and t are left as they are
outerStart(ee) ==
    [ee EXCEPT !.tinner = 0, !.thetamatrix = [l \in Stats |-> "none"]]

\* lines 175-176: the next outer iteration starts with an empty thetamatrix
EEOuter ==
    /\ pc = "EE_outer"
    /\ algEE.touter < algEE.Mouter
    /\ algEE' = outerStart(algEE)
    /\ pc' = "EE_inner"
    /\ UNCHANGED <<graphvars, binattr, catattr, probe, exc, sampler, ret, algS,
                   algSret, algEEret, theta_outfile, dzA_outfile, input, lastOp,
                   hist>>

\* lines 177-182: the next inner iteration calls BasicSampler with
\* performMove True
EEIterate ==
    /\ pc = "EE_inner"
    /\ algEE.tinner < algEE.M
    /\ SamplerCallDrift(algEE.theta, algEE.drift, TRUE, "EE_ret")
    /\ UNCHANGED <<graphvars, binattr, catattr, probe, exc, ret, lastOp,
                   othervars>>

\* the two vectors are both added
dzAAfter_AddBoth(dzA, addChangeStats, delChangeStats) ==
    [l \in Stats |-> dzA[l] + addChangeStats[l] + delChangeStats[l]]

\* line 184: dzA += addChangeStats - delChangeStats
dzAAfter(dzA, addChangeStats, delChangeStats) ==
    [l \in Stats |-> dzA[l] + addChangeStats[l] - delChangeStats[l]]

\* lines 183-189: dzA accumulates, theta steps and a row of the theta trace
\* is written
EEUpdate ==
    /\ pc = "EE_ret"
    /\ LET dzA == dzAAfter(algEE.dzA, ret.addChangeStats, ret.delChangeStats)
           theta_step == [l \in Stats |-> stepClassEE(dzA[l], algEE.D0[l])]
           drift == [l \in Stats |-> addClass(algEE.drift[l], theta_step[l])]
       IN /\ algEE' = [algEE EXCEPT !.dzA = dzA, !.theta_step = theta_step,
                                    !.drift = drift]
          /\ theta_outfile' = Append(theta_outfile,
                 thetaRowEE(algEE.t, algEE.theta, drift, ret.acceptance_rate))
    /\ hist' = [hist EXCEPT !.ee = eeHistCall(@, hist.accLog, algEE.t)]
    /\ pc' = "EE_dzA"
    /\ UNCHANGED <<graphvars, binattr, catattr, probe, exc, sampler, ret, algS,
                   algSret, algEEret, dzA_outfile, input, lastOp>>

\* lines 190-192: a row of the dzA trace is written, theta is stored in
\* thetamatrix and t is incremented
EEWriteDzA ==
    /\ pc = "EE_dzA"
    /\ dzA_outfile' = Append(dzA_outfile, dzARow(algEE.t, algEE.dzA))
    /\ algEE' = [algEE EXCEPT
           !.thetamatrix = [l \in Stats |->
                               rowClass(@[l], algEE.drift[l], algEE.theta_step[l])],
           !.t = @ + 1,
           !.tinner = @ + 1]
    /\ pc' = "EE_inner"
    /\ UNCHANGED <<graphvars, binattr, catattr, probe, exc, sampler, ret, algS,
                   algSret, algEEret, theta_outfile, input, lastOp, hist>>

\* lines 193-197: the inner loop is over, D0 is rescaled
EEEndInner ==
    /\ pc = "EE_inner"
    /\ algEE.tinner >= algEE.M
    /\ algEE' = [algEE EXCEPT
           !.D0 = [l \in Stats |-> D0ClassAfter(@[l], algEE.thetamatrix[l])],
           !.touter = @ + 1]
    /\ pc' = "EE_outer"
    /\ UNCHANGED <<graphvars, binattr, catattr, probe, exc, sampler, ret, algS,
                   algSret, algEEret, theta_outfile, dzA_outfile, input, lastOp,
                   hist>>

\* line 199: the outer loop is over, theta is returned
EEReturn ==
    /\ pc = "EE_outer"
    /\ algEE.touter >= algEE.Mouter
    /\ algEEret' = [theta |-> algEE.theta, drift |-> algEE.drift]
    /\ pc' = algEE.retpc
    /\ UNCHANGED <<graphvars, binattr, catattr, probe, exc, sampler, ret, algS,
                   algSret, algEE, theta_outfile, dzA_outfile, input, lastOp,
                   hist>>

(***************************************************************************)
(* A client of the Digraph and of BasicSampler that respects the           *)
(* mutators' preconditions: insertArc with i # j and the arc absent,       *)
(* removeArc with the arc present.                                         *)
(***************************************************************************)
\* the network file outside Digraph.__init__
NoInput == [nread |-> 0, eof |-> FALSE,
            l |-> [kind |-> "other", i |-> 0, j |-> 0],
            lsplit |-> [kind |-> "other", i |-> 0, j |-> 0]]

\* the attribute lists a constructed Digraph can hold
BinattrOnes == [v \in Nodes |-> 1]

BinattrMixed == [v \in Nodes |-> v % 2]

BinattrLoaded == {None, BinattrOnes, BinattrMixed}

\* the theta vectors the client calls BasicSampler with, in units of
\* 1/ThetaScale: zero, (-1, 0, 2), and one whose Arc term exceeds the
\* largest argument of math.exp
ThetaInputs ==
    { ZeroVec,
      [l \in Stats |-> CASE l = 1 -> -ThetaScale
                         [] l = 3 -> 2 * ThetaScale
                         [] OTHER -> 0],
      [l \in Stats |-> IF l = 1
                       THEN ((ExpMaxArgCenti \div 100) + 1) * ThetaScale
                       ELSE 0] }

InitClient ==
    /\ G = EmptyGraph.G
    /\ Grev = EmptyGraph.Grev
    /\ InTwoPathMatrix = EmptyGraph.InTwoPathMatrix
    /\ OutTwoPathMatrix = EmptyGraph.OutTwoPathMatrix
    /\ MixTwoPathMatrix = EmptyGraph.MixTwoPathMatrix
    /\ binattr \in BinattrLoaded
    /\ catattr = None
    /\ probe = NoProbe
    /\ pc = "client"
    /\ exc = ""
    /\ sampler = IdleFrame
    /\ ret = NoRet
    /\ algS = IdleS
    /\ algSret = NoSret
    /\ algEE = IdleEE
    /\ algEEret = NoEEret
    /\ dzA_outfile = << >>
    /\ theta_outfile = << >>
    /\ input = NoInput
    /\ lastOp = "new"
    /\ hist = NoHist

ClientInsertArc ==
    /\ pc = "client"
    /\ probe.stage = "idle"
    /\ \E i \in Nodes, j \in Nodes :
          /\ i # j
          /\ ~isArc(Cur, i, j)
          /\ SetGraph(insertArc(Cur, i, j))
    /\ lastOp' = "insertArc"
    /\ UNCHANGED <<binattr, catattr, probe, pc, exc, sampler, ret, hist, othervars>>

ClientRemoveArc ==
    /\ pc = "client"
    /\ probe.stage = "idle"
    /\ \E i \in Nodes, j \in Nodes :
          /\ isArc(Cur, i, j)
          /\ SetGraph(removeArc(Cur, i, j))
    /\ lastOp' = "removeArc"
    /\ UNCHANGED <<binattr, catattr, probe, pc, exc, sampler, ret, hist, othervars>>

\* the client calls BasicSampler(G, changestats_func_list, theta, performMove)
ClientCallSampler ==
    /\ pc = "client"
    /\ \E th \in ThetaInputs, pm \in BOOLEAN : SamplerCall(th, pm, "client_ret")
    /\ UNCHANGED <<graphvars, binattr, catattr, probe, exc, ret, lastOp, othervars>>

\* the client has the returned tuple and goes on
ClientResume ==
    /\ pc = "client_ret"
    /\ pc' = "client"
    /\ sampler' = IdleFrame
    /\ ret' = NoRet
    /\ hist' = NoHist
    /\ UNCHANGED <<graphvars, binattr, catattr, probe, exc, lastOp, othervars>>

\* the client calls algorithm_S(G, changestats_func_list, M1, theta_outfile)
\* with a file just opened
ClientCallS ==
    /\ pc = "client"
    /\ \E M1 \in 0 .. MaxM1 : SCall(M1, "client_S_ret")
    /\ UNCHANGED <<graphvars, binattr, catattr, probe, exc, sampler, ret, algSret, theta_outfile,
                   input, lastOp, eevars>>

\* the client has the returned tuple, closes the file and goes on
ClientResumeS ==
    /\ pc = "client_S_ret"
    /\ pc' = "client"
    /\ sampler' = IdleFrame
    /\ ret' = NoRet
    /\ algS' = IdleS
    /\ algSret' = NoSret
    /\ theta_outfile' = << >>
    /\ hist' = NoHist
    /\ UNCHANGED <<graphvars, binattr, catattr, probe, exc, input, lastOp, eevars>>

NextGraph == ClientInsertArc \/ ClientRemoveArc

SpecGraph == InitClient /\ [][NextGraph]_vars

NextSampler ==
    \/ ClientInsertArc
    \/ ClientRemoveArc
    \/ ClientCallSampler
    \/ ClientResume
    \/ SamplerPropose
    \/ SamplerDecide
    \/ SamplerReturn

SpecSampler == InitClient /\ [][NextSampler]_vars

NextS ==
    \/ NextSampler
    \/ ClientCallS
    \/ ClientResumeS
    \/ SIterate
    \/ SUpdate
    \/ SReturn

SpecS == InitClient /\ [][NextS]_vars

(***************************************************************************)
(* A client of the statistics library on a Digraph built with both         *)
(* attribute files: it evaluates every function at a pair i # j, as lines  *)
(* 76-78 of BasicSampler do, and may then insert the arc, remove it and    *)
(* evaluate again.                                                         *)
(***************************************************************************)
\* the categorical attribute lists a constructed Digraph can hold
CatattrSame == [v \in Nodes |-> 0]

CatattrMixed == [v \in Nodes |-> v % 2]

InitStats ==
    /\ G = EmptyGraph.G
    /\ Grev = EmptyGraph.Grev
    /\ InTwoPathMatrix = EmptyGraph.InTwoPathMatrix
    /\ OutTwoPathMatrix = EmptyGraph.OutTwoPathMatrix
    /\ MixTwoPathMatrix = EmptyGraph.MixTwoPathMatrix
    /\ binattr \in {BinattrOnes, BinattrMixed}
    /\ catattr \in {CatattrSame, CatattrMixed}
    /\ probe = NoProbe
    /\ pc = "client"
    /\ exc = ""
    /\ sampler = IdleFrame
    /\ ret = NoRet
    /\ algS = IdleS
    /\ algSret = NoSret
    /\ algEE = IdleEE
    /\ algEEret = NoEEret
    /\ dzA_outfile = << >>
    /\ theta_outfile = << >>
    /\ input = NoInput
    /\ lastOp = "new"
    /\ hist = NoHist

\* changestats_func_list[l](G, i, j) for every function of the library
ClientChangeStats ==
    /\ pc = "client"
    /\ probe.stage = "idle"
    /\ \E i \in Nodes, j \in Nodes :
          /\ i # j
          /\ probe' = [NoProbe EXCEPT
                          !.stage = "computed", !.i = i, !.j = j,
                          !.first = statValues(Cur, binattr, catattr, i, j)]
    /\ UNCHANGED <<graphvars, binattr, catattr, pc, exc, sampler, ret, lastOp,
                   hist, othervars>>

\* G.insertArc(i, j) at the pair just evaluated, the arc being absent
ClientInsertProbed ==
    /\ pc = "client"
    /\ probe.stage = "computed"
    /\ ~isArc(Cur, probe.i, probe.j)
    /\ SetGraph(insertArc(Cur, probe.i, probe.j))
    /\ lastOp' = "insertArc"
    /\ probe' = [probe EXCEPT !.stage = "inserted"]
    /\ UNCHANGED <<binattr, catattr, pc, exc, sampler, ret, hist, othervars>>

\* G.removeArc(i, j) of the arc just inserted
ClientRemoveProbed ==
    /\ pc = "client"
    /\ probe.stage = "inserted"
    /\ SetGraph(removeArc(Cur, probe.i, probe.j))
    /\ lastOp' = "removeArc"
    /\ probe' = [probe EXCEPT !.stage = "removed"]
    /\ UNCHANGED <<binattr, catattr, pc, exc, sampler, ret, hist, othervars>>

\* the library is evaluated at the same pair again
ClientChangeStatsAgain ==
    /\ pc = "client"
    /\ probe.stage = "removed"
    /\ probe' = [probe EXCEPT
                    !.stage = "recomputed",
                    !.second = statValues(Cur, binattr, catattr, probe.i, probe.j)]
    /\ UNCHANGED <<graphvars, binattr, catattr, pc, exc, sampler, ret, lastOp,
                   hist, othervars>>

\* the client drops the values
ClientDropStats ==
    /\ pc = "client"
    /\ probe.stage \in {"computed", "recomputed"}
    /\ probe' = NoProbe
    /\ UNCHANGED <<graphvars, binattr, catattr, pc, exc, sampler, ret, lastOp,
                   hist, othervars>>

NextStats ==
    \/ ClientInsertArc
    \/ ClientRemoveArc
    \/ ClientChangeStats
    \/ ClientInsertProbed
    \/ ClientRemoveProbed
    \/ ClientChangeStatsAgain
    \/ ClientDropStats

SpecStats == InitStats /\ [][NextStats]_vars

\* A client that builds a graph from the empty one and sums the change
\* statistics of the arcs it inserts: the library is evaluated at an absent
\* arc i -> j of the graph built so far
ClientSumStats ==
    /\ pc = "client"
    /\ probe.stage = "idle"
    /\ \E i \in Nodes, j \in Nodes :
          /\ i # j
          /\ ~isArc(Cur, i, j)
          /\ probe' = [probe EXCEPT
                          !.stage = "summing", !.i = i, !.j = j,
                          !.first = statValues(Cur, binattr, catattr, i, j)]
    /\ UNCHANGED <<graphvars, binattr, catattr, pc, exc, sampler, ret, lastOp,
                   hist, othervars>>

\* the values are added to the running sums without the arc
sumStats_Unchanged(acc, values) == acc

\* the values are added to the running sums
sumStats(acc, values) == [name \in allChangeStats |-> acc[name] + values[name]]

\* the values join the running sums and G.insertArc(i, j) adds the arc
ClientInsertSummed ==
    /\ pc = "client"
    /\ probe.stage = "summing"
    /\ SetGraph(insertArc(Cur, probe.i, probe.j))
    /\ lastOp' = "insertArc"
    /\ probe' = [probe EXCEPT !.stage = "idle",
                              !.sum = sumStats(probe.sum, probe.first)]
    /\ UNCHANGED <<binattr, catattr, pc, exc, sampler, ret, hist, othervars>>

NextBuild ==
    \/ ClientSumStats
    \/ ClientInsertSummed

SpecBuild == InitStats /\ [][NextBuild]_vars

(***************************************************************************)
(* Digraph.__init__: the Pajek loader.  A line of the file is "*arcs"      *)
(* (kind "arcs"), two integer tokens i j (kind "pair"), two tokens that    *)
(* are not both integers (kind "nonint"), or anything else (kind "other"); *)
(* readline at the end of the file gives the empty string (kind "eof").    *)
(* The first line is "*vertices n" with n = NumNodes.                      *)
(***************************************************************************)
Line(kind, i, j) == [kind |-> kind, i |-> i, j |-> j]

\* the lines a file can hold
Lines ==
    {Line(kind, 0, 0) : kind \in {"arcs", "other", "nonint"}}
        \cup {Line("pair", i, j) : i \in 0 .. (NumNodes + 1),
                                   j \in 0 .. (NumNodes + 1)}

\* f.readline(): what it can return, and the file after it
readlineResults(inp) ==
    {[line |-> Line("eof", 0, 0), eof |-> TRUE, nread |-> inp.nread]}
        \cup (IF inp.eof \/ inp.nread >= MaxLines THEN {}
              ELSE {[line |-> ln, eof |-> FALSE, nread |-> inp.nread + 1] :
                        ln \in Lines})

\* the attribute files: none, all ones, zeros and ones, one value short
BinattrFiles ==
    {None, BinattrOnes, BinattrMixed, [v \in 0 .. (NumNodes - 2) |-> 1]}

\* lines 65-81, after the first line is read: no attributes, empty graph
Init ==
    /\ G = EmptyGraph.G
    /\ Grev = EmptyGraph.Grev
    /\ InTwoPathMatrix = EmptyGraph.InTwoPathMatrix
    /\ OutTwoPathMatrix = EmptyGraph.OutTwoPathMatrix
    /\ MixTwoPathMatrix = EmptyGraph.MixTwoPathMatrix
    /\ binattr = None
    /\ catattr = None
    /\ probe = NoProbe
    /\ pc = "load_skip"
    /\ exc = ""
    /\ sampler = IdleFrame
    /\ ret = NoRet
    /\ algS = IdleS
    /\ algSret = NoSret
    /\ algEE = IdleEE
    /\ algEEret = NoEEret
    /\ dzA_outfile = << >>
    /\ theta_outfile = << >>
    /\ input = NoInput
    /\ lastOp = "new"
    /\ hist = NoHist

\* lines 83-84: while l.rstrip().lower() != "*arcs": l = f.readline()
LoadSkip ==
    /\ pc = "load_skip"
    /\ input.l.kind # "arcs"
    /\ \E r \in readlineResults(input) :
          input' = [input EXCEPT !.l = IF r.line.kind \in {"arcs", "eof"}
                                       THEN r.line ELSE Line("other", 0, 0),
                                 !.eof = r.eof, !.nread = r.nread]
    /\ UNCHANGED <<graphvars, binattr, catattr, probe, pc, exc, sampler, ret, algS, algSret,
                   theta_outfile, lastOp, hist, eevars>>

\* line 85: lsplit = f.readline().split()
LoadFirstArcLine ==
    /\ pc = "load_skip"
    /\ input.l.kind = "arcs"
    /\ \E r \in readlineResults(input) :
          input' = [input EXCEPT !.lsplit = r.line, !.eof = r.eof,
                                 !.nread = r.nread]
    /\ pc' = "load_arcs"
    /\ UNCHANGED <<graphvars, binattr, catattr, probe, exc, sampler, ret, algS, algSret,
                   theta_outfile, lastOp, hist, eevars>>

\* line 88: assert(i >= 1 and i <= n and j >= 1 and j <= n)
arcLineOk(i, j) == i >= 1 /\ i <= NumNodes /\ j >= 1 /\ j <= NumNodes

\* lines 86-90: one pass of "while len(lsplit) == 2", or its exit
LoadArcLine ==
    /\ pc = "load_arcs"
    /\ CASE input.lsplit.kind = "nonint" ->
               /\ exc' = "ValueError"
               /\ pc' = "raised"
               /\ UNCHANGED <<graphvars, input, lastOp>>
         [] input.lsplit.kind = "pair" ->
               IF arcLineOk(input.lsplit.i, input.lsplit.j)
               THEN /\ SetGraph(insertArc(Cur, input.lsplit.i - 1,
                                          input.lsplit.j - 1))
                    /\ lastOp' = "insertArc"
                    /\ \E r \in readlineResults(input) :
                          input' = [input EXCEPT !.lsplit = r.line,
                                                 !.eof = r.eof,
                                                 !.nread = r.nread]
                    /\ UNCHANGED <<pc, exc>>
               ELSE /\ exc' = "AssertionError"
                    /\ pc' = "raised"
                    /\ UNCHANGED <<graphvars, input, lastOp>>
         [] OTHER ->
               /\ pc' = "load_attrs"
               /\ UNCHANGED <<graphvars, exc, input, lastOp>>
    /\ UNCHANGED <<binattr, catattr, probe, sampler, ret, algS, algSret, theta_outfile, hist, eevars>>

\* lines 92-98: the binary attributes are read if a file is given; the
\* constructor returns and its locals are gone
LoadAttrs ==
    /\ pc = "load_attrs"
    /\ \E b \in BinattrFiles :
          IF b = None \/ Cardinality(DOMAIN b) = NumNodes
          THEN /\ binattr' = b
               /\ pc' = "run"
               /\ exc' = exc
          ELSE /\ exc' = "AssertionError"
               /\ pc' = "raised"
               /\ binattr' = b
    /\ input' = NoInput
    /\ UNCHANGED <<graphvars, catattr, probe, sampler, ret, algS, algSret,
                   theta_outfile, lastOp, hist, eevars>>

\* Digraph.__init__ alone; the interpreter keeps taking the steps of the
\* constructor while there is one that changes the state
NextLoad == LoadSkip \/ LoadFirstArcLine \/ LoadArcLine \/ LoadAttrs

SpecLoad == Init /\ [][NextLoad]_vars /\ WF_vars(NextLoad)

(***************************************************************************)
(* run_on_network_attr, after the Digraph is built.                        *)
(***************************************************************************)
\* the statistics' labels
labels == <<"Arc", "Reciprocity", "Sender">>

M1_steps == 500

\* lines 234-236: M1 = int(M1_steps * density * (1 - density) * n^2 /
\* sampler_m), density = numArcs / (n * (n - 1)); the model runs at most
\* MaxM1 iterations
M1Of(g) ==
    LET n == numNodes(g)
        pairs == n * (n - 1)
        arcs == numArcs(g)
        num == M1_steps * arcs * (pairs - arcs) * n * n
        den == pairs * pairs * sampler_m
        m1 == IF num <= 0 THEN 0 ELSE num \div den
    IN IF m1 > MaxM1 THEN MaxM1 ELSE m1

\* lines 245-249: the theta trace is opened, its header written, and
\* algorithm_S called
RunStartS ==
    /\ pc = "run"
    /\ theta_outfile' = <<[kind |-> "header",
                           labels |-> <<"t">> \o labels \o <<"AcceptanceRate">>]>>
    /\ SCall(M1Of(Cur), "run_S_ret")
    /\ UNCHANGED <<graphvars, binattr, catattr, probe, exc, sampler, ret, algSret, input, lastOp, eevars>>

Msteps == 100

\* lines 238-241: M = int(Msteps * density * (1 - density) * n^2 /
\* sampler_m); the model runs at most MaxM inner iterations
MOf(g) ==
    LET n == numNodes(g)
        pairs == n * (n - 1)
        arcs == numArcs(g)
        num == Msteps * arcs * (pairs - arcs) * n * n
        den == pairs * pairs * sampler_m
        m == IF num <= 0 THEN 0 ELSE num \div den
    IN IF m > MaxM THEN MaxM ELSE m

\* lines 250-258: algorithm_S has returned; the dzA trace is opened, its
\* header written, and algorithm_EE is called with theta and Dmean
RunAfterS ==
    /\ pc = "run_S_ret"
    /\ dzA_outfile' = <<[kind |-> "header", labels |-> <<"t">> \o labels]>>
    /\ EECall(algSret.theta, classOfDmean(algSret.Dmean), Mouter, MOf(Cur),
              "run_EE_ret")
    /\ UNCHANGED <<graphvars, binattr, catattr, probe, exc, sampler, ret, algS,
                   algSret, algEEret, theta_outfile, input, lastOp>>

\* lines 259-262: algorithm_EE has returned; the two files are closed
RunAfterEE ==
    /\ pc = "run_EE_ret"
    /\ pc' = "done"
    /\ UNCHANGED <<graphvars, binattr, catattr, probe, exc, sampler, ret, lastOp,
                   hist, othervars>>

\* the program up to the call of algorithm_EE
Next ==
    \/ LoadSkip
    \/ LoadFirstArcLine
    \/ LoadArcLine
    \/ LoadAttrs
    \/ RunStartS
    \/ RunAfterS
    \/ SIterate
    \/ SUpdate
    \/ SReturn
    \/ SamplerPropose
    \/ SamplerDecide
    \/ SamplerReturn

Spec == Init /\ [][Next]_vars

(***************************************************************************)
(* run_on_network_attr from the Digraph it has built to its end.           *)
(***************************************************************************)
\* the Digraph the loader builds from the arc lines of a file
RECURSIVE loadedGraph(_)
loadedGraph(arcs) ==
    IF arcs = << >> THEN EmptyGraph
    ELSE insertArc(loadedGraph(SubSeq(arcs, 1, Len(arcs) - 1)),
                   arcs[Len(arcs)][1] - 1, arcs[Len(arcs)][2] - 1)

\* the arc lines of the network files the run is started on
NetworkFiles == {<< >>, <<<<1, 2>>, <<2, 3>>>>}

InitRun ==
    /\ \E arcs \in NetworkFiles :
          /\ G = loadedGraph(arcs).G
          /\ Grev = loadedGraph(arcs).Grev
          /\ InTwoPathMatrix = loadedGraph(arcs).InTwoPathMatrix
          /\ OutTwoPathMatrix = loadedGraph(arcs).OutTwoPathMatrix
          /\ MixTwoPathMatrix = loadedGraph(arcs).MixTwoPathMatrix
    /\ binattr \in {None, BinattrOnes}
    /\ catattr = None
    /\ probe = NoProbe
    /\ pc = "run"
    /\ exc = ""
    /\ sampler = IdleFrame
    /\ ret = NoRet
    /\ algS = IdleS
    /\ algSret = NoSret
    /\ algEE = IdleEE
    /\ algEEret = NoEEret
    /\ dzA_outfile = << >>
    /\ theta_outfile = << >>
    /\ input = NoInput
    /\ lastOp = "insertArc"
    /\ hist = NoHist

NextRun ==
    \/ RunStartS
    \/ RunAfterS
    \/ RunAfterEE
    \/ SIterate
    \/ SUpdate
    \/ SReturn
    \/ EEOuter
    \/ EEIterate
    \/ EEUpdate
    \/ EEWriteDzA
    \/ EEEndInner
    \/ EEReturn
    \/ SamplerPropose
    \/ SamplerDecide
    \/ SamplerReturn

SpecRun == InitRun /\ [][NextRun]_vars

(***************************************************************************)
(* A client that calls algorithm_EE on a graph it has loaded, with a theta *)
(* and a D0 of its own and dzA and theta files just opened.                *)
(***************************************************************************)
\* the arc lines of the network files of the client
EENetworkFiles == {<<<<1, 2>>, <<2, 3>>>>, <<<<1, 2>>, <<2, 1>>, <<3, 1>>>>}

\* the theta vectors of the client, in units of 1/ThetaScale
EEThetaInputs ==
    { ZeroVec,
      [l \in Stats |-> CASE l = 1 -> -ThetaScale
                         [] l = 2 -> ThetaScale
                         [] OTHER -> 0] }

\* the D0 vectors of the client: positive numbers, or inf for Reciprocity
EED0Inputs ==
    { [l \in Stats |-> "pos"],
      [l \in Stats |-> IF l = 2 THEN "pinf" ELSE "pos"] }

InitEE ==
    /\ \E arcs \in EENetworkFiles :
          /\ G = loadedGraph(arcs).G
          /\ Grev = loadedGraph(arcs).Grev
          /\ InTwoPathMatrix = loadedGraph(arcs).InTwoPathMatrix
          /\ OutTwoPathMatrix = loadedGraph(arcs).OutTwoPathMatrix
          /\ MixTwoPathMatrix = loadedGraph(arcs).MixTwoPathMatrix
    /\ binattr = BinattrMixed
    /\ catattr = None
    /\ probe = NoProbe
    /\ pc = "client"
    /\ exc = ""
    /\ sampler = IdleFrame
    /\ ret = NoRet
    /\ algS = IdleS
    /\ algSret = NoSret
    /\ algEE = IdleEE
    /\ algEEret = NoEEret
    /\ dzA_outfile = << >>
    /\ theta_outfile = << >>
    /\ input = NoInput
    /\ lastOp = "insertArc"
    /\ hist = NoHist

\* the client calls algorithm_EE(G, changestats_func_list, theta, D0, Mouter,
\* M, theta_outfile, dzA_outfile)
ClientCallEE ==
    /\ pc = "client"
    /\ \E th \in EEThetaInputs, D0 \in EED0Inputs,
          outer \in 1 .. Mouter, inner \in 1 .. MaxEESteps :
             /\ outer * inner <= MaxEESteps
             /\ EECall(th, D0, outer, inner, "client_EE_ret")
    /\ UNCHANGED <<graphvars, binattr, catattr, probe, exc, sampler, ret, algS,
                   algSret, algEEret, theta_outfile, dzA_outfile, input, lastOp>>

NextEE ==
    \/ ClientCallEE
    \/ EEOuter
    \/ EEIterate
    \/ EEUpdate
    \/ EEWriteDzA
    \/ EEEndInner
    \/ EEReturn
    \/ SamplerPropose
    \/ SamplerDecide
    \/ SamplerReturn

SpecEE == InitEE /\ [][NextEE]_vars

(***************************************************************************)
(* The two-path counts of section 3 recomputed from the adjacency.         *)
(***************************************************************************)
MixCount(u, v) == Cardinality({w \in Nodes : w \in G[u] /\ v \in G[w]})

OutCount(u, v) == Cardinality({w \in Nodes : w \in G[u] /\ w \in G[v]})

InCount(u, v) == Cardinality({w \in Nodes : u \in G[w] /\ v \in G[w]})

\* C2: after any sequence of insertArc/removeArc calls that respect their
\* preconditions, MixTwoPathMatrix[u,v] (u # v) is the number of nodes w
\* with arcs u->w and w->v in the current adjacency.
C2_MixMatchesCount ==
    \A u \in Nodes, v \in Nodes :
        u # v => MixTwoPathMatrix[u, v] = MixCount(u, v)

\* a removal has just run and a directed two-path 0->w->2 is still counted
C2_Witness ==
    /\ lastOp = "removeArc"
    /\ MixTwoPathMatrix[0, 2] = 1
    /\ 1 \in G[0] /\ 2 \in G[1]
    /\ MixTwoPathMatrix[2, 0] = 0

\* C3 as stated: OutTwoPathMatrix[u,v] (u # v) is the number of shared
\* out-neighbours of u and v (u->w, v->w) and InTwoPathMatrix[u,v] the
\* number of shared in-neighbours (w->u, w->v).
C3_Original ==
    \A u \in Nodes, v \in Nodes :
        u # v => /\ OutTwoPathMatrix[u, v] = OutCount(u, v)
                 /\ InTwoPathMatrix[u, v] = InCount(u, v)

\* C3 (amended): after any sequence of insertArc/removeArc calls that
\* respect their preconditions, OutTwoPathMatrix[u,v] (u # v) is the number
\* of nodes w with arcs w->u and w->v (out-two-paths u <- w -> v, a shared
\* in-neighbour), and InTwoPathMatrix[u,v] the number of nodes w with arcs
\* u->w and v->w (in-two-paths u -> w <- v, a shared out-neighbour).
C3_OutInMatchCount ==
    \A u \in Nodes, v \in Nodes :
        u # v => /\ OutTwoPathMatrix[u, v] = InCount(u, v)
                 /\ InTwoPathMatrix[u, v] = OutCount(u, v)

\* a removal has just run leaving arcs 0->1, 0->2, 1->2: 1 and 2 share the
\* sender 0, 0 and 1 share the receiver 2, and the two matrices differ
C3_Witness ==
    /\ lastOp = "removeArc"
    /\ 1 \in G[0] /\ 2 \in G[0] /\ 2 \in G[1]
    /\ OutTwoPathMatrix[1, 2] = 1 /\ InTwoPathMatrix[1, 2] = 0
    /\ InTwoPathMatrix[0, 1] = 1 /\ OutTwoPathMatrix[0, 1] = 0

\* C6: OutTwoPathMatrix and InTwoPathMatrix equal their transposes and the
\* diagonals of all three matrices are zero.
C6_SymmetricZeroDiagonal ==
    /\ \A u \in Nodes, v \in Nodes :
          /\ OutTwoPathMatrix[u, v] = OutTwoPathMatrix[v, u]
          /\ InTwoPathMatrix[u, v] = InTwoPathMatrix[v, u]
    /\ \A u \in Nodes :
          /\ OutTwoPathMatrix[u, u] = 0
          /\ InTwoPathMatrix[u, u] = 0
          /\ MixTwoPathMatrix[u, u] = 0

\* every node has an out-arc and an in-arc, the symmetric matrices hold
\* non-zero cells and the mixed one is not symmetric
C6_Witness ==
    /\ \A u \in Nodes : G[u] # {} /\ Grev[u] # {}
    /\ \E u \in Nodes, v \in Nodes : OutTwoPathMatrix[u, v] > 0
    /\ \E u \in Nodes, v \in Nodes : InTwoPathMatrix[u, v] > 0
    /\ MixTwoPathMatrix[0, 2] # MixTwoPathMatrix[2, 0]

(***************************************************************************)
(* Properties of BasicSampler, algorithm_S and the run.                    *)
(***************************************************************************)
\* the accepted proposals of the call on the ordered pair (i, j)
AcceptedOn(i, j) ==
    {n \in DOMAIN hist.accLog : hist.accLog[n].i = i /\ hist.accLog[n].j = j}

\* the accepted add (isDelete FALSE) or delete (TRUE) proposals of the call
AcceptedMoves(isDelete) ==
    {n \in DOMAIN hist.accLog : hist.accLog[n].isDelete = isDelete}

\* the sum of the change-statistic vectors of those proposals
SumAccepted(isDelete) ==
    [l \in Stats |->
        SumOver([n \in DOMAIN hist.accLog |-> hist.accLog[n].changestats[l]],
                AcceptedMoves(isDelete))]

\* a BasicSampler call has just returned to its caller
SamplerReturned == pc \in {"client_ret", "S_ret"}

\* C1: in every state reached by insertArc/removeArc calls that respect
\* their preconditions and by BasicSampler calls with performMove true or
\* false, j is in Out[i] if and only if i is in In[j], and the sum of the
\* out-degrees equals the sum of the in-degrees.
C1_AdjacencyAgrees ==
    /\ \A i \in Nodes, j \in Nodes : (j \in G[i]) <=> (i \in Grev[j])
    /\ SumOver([v \in Nodes |-> outdegree(Cur, v)], Nodes)
          = SumOver([v \in Nodes |-> indegree(Cur, v)], Nodes)

\* a BasicSampler call with performMove true has returned after an accepted
\* add and an accepted delete, on a graph that still holds an arc
C1_Witness ==
    /\ pc = "client_ret"
    /\ sampler.performMove
    /\ AcceptedMoves(TRUE) # {} /\ AcceptedMoves(FALSE) # {}
    /\ \E i \in Nodes : G[i] # {}

\* C4: a BasicSampler call with performMove false returns with both
\* adjacency maps and the three two-path matrices as they were at its
\* entry, and algorithm_S returns with the graph as it was at its entry.
C4_NoMoveRestoresGraph ==
    /\ (SamplerReturned /\ ~sampler.performMove) => Cur = hist.entry
    /\ pc = "client_S_ret" => Cur = hist.Sentry

\* algorithm_S returns from two iterations whose last BasicSampler call
\* accepted a delete and rejected its last proposal
C4_Witness ==
    /\ pc = "client_S_ret"
    /\ algS.M1 = 2
    /\ AcceptedMoves(TRUE) # {}
    /\ hist.outcome = "reject"

\* C5: when a BasicSampler call with performMove true returns, an arc i->j
\* is present if and only if it was present at entry XOR the number of
\* accepted proposals on (i, j) is odd; and after a rejected proposal the
\* adjacency and the matrices are as they were before that proposal.
C5_GraphReflectsAccepted ==
    /\ (pc = "client_ret" /\ sampler.performMove) =>
          \A i \in Nodes, j \in Nodes :
              isArc(Cur, i, j) <=>
                 (isArc(hist.entry, i, j) # (Cardinality(AcceptedOn(i, j)) % 2 = 1))
    /\ (sampler.performMove /\ hist.outcome = "reject") => Cur = hist.propStart

\* a call with performMove true returns after one accepted proposal and a
\* rejected last one, with a graph that differs from the one at entry
C5_Witness ==
    /\ pc = "client_ret"
    /\ sampler.performMove
    /\ Len(hist.accLog) = 1
    /\ hist.outcome = "reject"
    /\ G # hist.entry.G

\* C7: BasicSampler returns acceptance_rate = accepted proposals /
\* sampler_m, addChangeStats = the sum of the change statistics of the
\* accepted adds and delChangeStats = that of the accepted deletes; the Arc
\* coordinate (and Sender's with an all-ones attribute) of addChangeStats is
\* the number of accepted adds, and that of addChangeStats + delChangeStats
\* the number of accepted proposals.
C7_ReturnedTuple ==
    SamplerReturned =>
        /\ ret.acceptance_rate = <<Len(hist.accLog), sampler_m>>
        /\ ret.addChangeStats = SumAccepted(FALSE)
        /\ ret.delChangeStats = SumAccepted(TRUE)
        /\ \A l \in Stats :
              (changestats_func_list[l] = "changeArc"
                 \/ (changestats_func_list[l] = "changeSender"
                        /\ binattr = BinattrOnes)) =>
                 /\ ret.addChangeStats[l] = Cardinality(AcceptedMoves(FALSE))
                 /\ ret.addChangeStats[l] + ret.delChangeStats[l]
                       = Len(hist.accLog)

\* a call on a graph with all-ones attributes returns after an accepted
\* add and an accepted delete
C7_Witness ==
    /\ pc = "client_ret"
    /\ binattr = BinattrOnes
    /\ AcceptedMoves(TRUE) # {} /\ AcceptedMoves(FALSE) # {}

\* C8 as stated: no node is its own out- or in-neighbour in any state
\* reached by loading a network file and running sampler calls.
C8_NoSelfLoops ==
    \A i \in Nodes : i \notin G[i] /\ i \notin Grev[i]

\* the positions of Digraph.__init__
LoadPcs == {"load_skip", "load_arcs", "load_attrs"}

\* the data rows of the theta trace
DataRows == {n \in DOMAIN theta_outfile : theta_outfile[n].kind = "data"}

\* C9 as stated: when a statistic of the list needs the binary attributes
\* and none were loaded, the run fails before any sampling: no proposal is
\* drawn, no arc is removed and no data row is written.
C9_FailsBeforeSampling ==
    (/\ pc \notin LoadPcs
     /\ binattr = None
     /\ \E l \in Stats : statRaises(changestats_func_list[l], binattr)) =>
        /\ sampler.i = -1 /\ sampler.j = -1
        /\ lastOp # "removeArc"
        /\ DataRows = {}

\* C10 as stated: an overflow of math.exp never ends the sampler call with
\* an error.
C10_OverflowIsAccepted ==
    ~(pc = "raised" /\ exc = "OverflowError")

\* C12: every proposal BasicSampler draws is an ordered pair (i, j) of
\* nodes in 0..n-1 with i # j; before the first draw i and j are unassigned.
C12_ProposalsAreDistinctNodes ==
    \/ sampler.i = -1 /\ sampler.j = -1
    \/ /\ sampler.i \in 0 .. (numNodes(Cur) - 1)
       /\ sampler.j \in 0 .. (numNodes(Cur) - 1)
       /\ sampler.i # sampler.j

\* the second proposal of a call has been drawn, towards a lower node
C12_Witness ==
    /\ pc = "sampler_stats"
    /\ sampler.k = 1
    /\ sampler.j < sampler.i

\* the library has been evaluated at probe.i -> probe.j
StatsComputed == probe.stage \in {"computed", "inserted", "removed", "recomputed"}

\* C11: every statistic function returns a non-negative value at every
\* pair i # j in every graph built by insertArc/removeArc, with binary
\* attributes in {0, 1}, so the assertion changestats[l] >= 0 of the
\* sampler never fails.
C11_StatsNonNegative ==
    StatsComputed =>
        \A name \in allChangeStats :
            probe.first[name] >= 0 /\ probe.second[name] >= 0

\* a pair has been evaluated where an alternating statistic and an
\* attribute statistic are both positive
C11_Witness ==
    /\ probe.stage = "computed"
    /\ probe.first["changeAltKTrianglesT"] > 0
    /\ probe.first["changeAltTwoPathsD"] > 0
    /\ probe.first["changeInteraction"] > 0
    /\ probe.first["changeMismatching"] > 0

\* C13: for every statistic and every pair i # j with the arc i -> j
\* absent, the value computed after insertArc(i, j) then removeArc(i, j)
\* equals the value computed before.
C13_InsertRemoveKeepsStats ==
    probe.stage = "recomputed" => probe.second = probe.first

\* the round trip has run at a pair where the two-path statistics are
\* positive
C13_Witness ==
    /\ probe.stage = "recomputed"
    /\ probe.first["changeAltTwoPathsT"] > 0
    /\ probe.first["changeAltKTrianglesC"] > 0
    /\ probe.first["changeAltTwoPathsD"] > 0

\* the library has been evaluated at (0, 2) on the graph 0 -> 1 -> 2
ScenarioB ==
    /\ probe.stage = "computed"
    /\ probe.i = 0 /\ probe.j = 2
    /\ G = [v \in Nodes |-> CASE v = 0 -> {1} [] v = 1 -> {2} [] OTHER -> {}]

\* C19 as stated: on the three-node graph with arcs {0->1, 1->2} and
\* lambda = 2, changeAltTwoPathsT evaluated at (0, 2) returns 1.
C19_Original ==
    ScenarioB => probe.first["changeAltTwoPathsT"] = StatScale

\* C19, amended: on that graph changeAltTwoPathsT evaluated at (0, 2)
\* returns 0, node 2 having no out-neighbour and node 0 no in-neighbour.
C19_ScenarioBIsZero ==
    ScenarioB => probe.first["changeAltTwoPathsT"] = 0

\* the evaluation of the scenario has run
C19_Witness == ScenarioB /\ lastOp = "insertArc"

\* the sum of (1-1/lambda0)^count(v) over the nodes v of D
DecaySum(count(_), D) == SumOver([v \in Nodes |-> decayPow(count(v))], D)

\* C20 as stated: changeAltKTrianglesT(G, i, j) is the sum over v in
\* Out(i)\{i,j} with v -> j of (1-1/lambda)^Mix[i,v], plus the sum over v
\* in In(i)\{i,j} with v -> j of (1-1/lambda)^Mix[v,j], plus
\* lambda*(1-(1-1/lambda)^Mix[i,j]).
C20_Original ==
    probe.stage = "computed" =>
        LET i == probe.i
            j == probe.j
            mixIV(v) == MixCount(i, v)
            mixVJ(v) == MixCount(v, j)
        IN probe.first["changeAltKTrianglesT"] =
              DecaySum(mixIV, {v \in G[i] \ {i, j} : j \in G[v]})
              + DecaySum(mixVJ, {v \in Grev[i] \ {i, j} : j \in G[v]})
              + alternating(MixCount(i, j))

\* C20, amended: the first sum is over the v in Out(i)\{i,j} with the arc
\* j -> v, the second over the v in In(i)\{i,j} with the arc v -> j.
C20_ArmsAsInSource ==
    probe.stage = "computed" =>
        LET i == probe.i
            j == probe.j
            mixIV(v) == MixCount(i, v)
            mixVJ(v) == MixCount(v, j)
        IN probe.first["changeAltKTrianglesT"] =
              DecaySum(mixIV, {v \in G[i] \ {i, j} : v \in G[j]})
              + DecaySum(mixVJ, {v \in Grev[i] \ {i, j} : j \in G[v]})
              + alternating(MixCount(i, j))

\* the statistic has been evaluated where the first sum is not empty and
\* the arc v -> j of the statement is absent
C20_Witness ==
    /\ probe.stage = "computed"
    /\ \E v \in G[probe.i] \ {probe.i, probe.j} :
          v \in G[probe.j] /\ probe.j \notin G[v]

\* C16 as stated: loading a network file ends on every finite file, by the
\* constructor returning or by an error at a malformed line, also when no
\* line of the file is "*arcs".
C16_LoadTerminates == <>(pc \in {"run", "raised"})

\* C17 as stated: no division of the step-size computation has a zero
\* divisor; in Dmean = sampler_m / D0 the divisor D0[l] is not zero.
C17_NoZeroDivisor ==
    pc \in {"client_S_ret", "run_S_ret"} =>
        \A l \in Stats : algSret.Dmean[l][2] # 0

\* C18: with theta the zero vector every proposal is accepted, so the call
\* returns the acceptance rate sampler_m / sampler_m = 1; after one
\* proposal on the empty graph the arc count is 0 or 1.
C18_ZeroThetaAcceptsAll ==
    (sampler.theta = ZeroVec /\ pc \in {"sampler_loop", "sampler_stats",
                                        "client_ret"}) =>
        /\ hist.outcome # "reject"
        /\ sampler.accepted = sampler.k
        /\ pc = "client_ret" => ret.acceptance_rate = <<sampler_m, sampler_m>>
        /\ (hist.entry = EmptyGraph /\ sampler.k = 1 /\ pc = "sampler_loop") =>
              numArcs(Cur) = (IF sampler.performMove THEN 1 ELSE 0)

\* a call with theta zero has returned after an accepted delete
C18_Witness ==
    /\ pc = "client_ret"
    /\ sampler.theta = ZeroVec
    /\ sampler.performMove
    /\ AcceptedMoves(TRUE) # {}

\* the rows of the theta trace with t >= 0
NonNegRows == {n \in DataRows : theta_outfile[n].t >= 0}

\* the data rows of the dzA trace
DzARows == {n \in DOMAIN dzA_outfile : dzA_outfile[n].kind = "data"}

\* algorithm_S is running
InAlgorithmS ==
    \/ pc \in {"S_loop", "S_ret"}
    \/ pc \in {"sampler_loop", "sampler_stats"} /\ sampler.retpc = "S_ret"

\* algorithm_EE is running
InAlgorithmEE ==
    \/ pc \in {"EE_outer", "EE_inner", "EE_ret", "EE_dzA"}
    \/ pc \in {"sampler_loop", "sampler_stats"} /\ sampler.retpc = "EE_ret"

\* C14: over a run of algorithm_S(M1) then algorithm_EE(Mouter, M) the
\* data rows of the theta trace are numbered -M1, ..., -1 by Algorithm S and
\* then 0, 1, ... without reset by Algorithm EE; at the end of the run
\* there are M1 + Mouter * M of them.
C14_ThetaTraceRows ==
    /\ \A n \in DataRows : n >= 2 /\ theta_outfile[n].t = (n - 2) - algS.M1
    /\ InAlgorithmS => \A n \in DataRows : theta_outfile[n].t < 0
    /\ InAlgorithmEE =>
          /\ Cardinality(DataRows \ NonNegRows) = algS.M1
          /\ Cardinality(NonNegRows) \in {algEE.t, algEE.t + 1}
          /\ algEE.t <= algEE.Mouter * algEE.M
    /\ pc = "done" =>
          Cardinality(DataRows) = algS.M1 + algEE.Mouter * algEE.M

\* a run has ended with rows of Algorithm S and rows of two outer
\* iterations of Algorithm EE
C14_Witness ==
    /\ pc = "done"
    /\ algS.M1 >= 2
    /\ algEE.Mouter >= 2 /\ algEE.M >= 1
    /\ theta_outfile[Len(theta_outfile)].t = algEE.Mouter * algEE.M - 1

\* C15: the dzA trace has no data row while Algorithm S runs; in Algorithm
\* EE its k-th data row has the t of the k-th theta row with t >= 0 and is
\* written after it, so it has as many data rows as the theta trace has
\* rows with t >= 0, or one less.
C15_DzATraceRows ==
    /\ (pc = "run" \/ InAlgorithmS) => dzA_outfile = << >>
    /\ \A n \in DOMAIN dzA_outfile :
          dzA_outfile[n].kind = (IF n = 1 THEN "header" ELSE "data")
    /\ \A n \in DzARows :
          /\ dzA_outfile[n].t = n - 2
          /\ \E k \in NonNegRows : theta_outfile[k].t = dzA_outfile[n].t
    /\ Cardinality(NonNegRows) - Cardinality(DzARows)
          = (IF pc = "EE_dzA" THEN 1 ELSE 0)

\* the theta row of the second inner step is written and its dzA row is not
C15_Witness ==
    /\ pc = "EE_dzA"
    /\ Cardinality(DzARows) = 1
    /\ Cardinality(NonNegRows) = 2
    /\ algS.M1 >= 1

\* the statistics that depend on the arcs only
structuralStats ==
    {"changeArc", "changeReciprocity", "changeAltInStars", "changeAltOutStars",
     "changeAltKTrianglesT", "changeAltKTrianglesC", "changeAltTwoPathsT",
     "changeAltTwoPathsD", "changeAltTwoPathsTD"}

\* C21: on the empty graph, at every pair i # j, every structural statistic
\* is a finite number (between 0 and lambda0), changeAltInStars and
\* changeAltOutStars are 0 and changeAltKTrianglesT is 0.
C21_EmptyGraphStats ==
    (probe.stage = "computed" /\ Cur = EmptyGraph) =>
        /\ probe.i # probe.j
        /\ \A name \in structuralStats :
              probe.first[name] \in 0..(lambda0 * StatScale)
        /\ probe.first["changeAltInStars"] = 0
        /\ probe.first["changeAltOutStars"] = 0
        /\ probe.first["changeAltKTrianglesT"] = 0

\* the library evaluated on a graph emptied again by removals
C21_Witness ==
    /\ probe.stage = "computed"
    /\ Cur = EmptyGraph
    /\ lastOp = "removeArc"
    /\ probe.first["changeArc"] = StatScale

\* the arcs of the current graph, as pairs
arcsOf(g) == {a \in Nodes \X Nodes : isArc(g, a[1], a[2])}

\* the number of pairs of nodes joined by arcs in both directions
mutualPairs(g) ==
    Cardinality({a \in arcsOf(g) : a[1] < a[2] /\ isArc(g, a[2], a[1])})

\* the least arc of a non-empty set of arcs in the lexicographic order
leastArc(A) ==
    CHOOSE a \in A : \A b \in A :
        a[1] < b[1] \/ (a[1] = b[1] /\ a[2] <= b[2])

\* the sums of the change statistics when the arcs A are inserted into g in
\* lexicographic order, starting from the sums acc
RECURSIVE sumInOrder(_, _, _)
sumInOrder(A, g, acc) ==
    IF A = {} THEN acc
    ELSE LET a == leastArc(A)
         IN  sumInOrder(A \ {a}, insertArc(g, a[1], a[2]),
                        [name \in allChangeStats |->
                            acc[name] + statValue(name, g, binattr, catattr,
                                                  a[1], a[2])])

\* C22: a graph built from the empty graph by inserting arcs one at a time,
\* the change statistics being summed at each insertion: the sum of Arc is
\* the number of arcs, the sum of Reciprocity is the number of mutual pairs,
\* and the sum of every statistic is the one obtained by inserting the same
\* arcs in lexicographic order, whatever the order of insertion was.
C22_SumsAreFromScratch ==
    probe.stage = "idle" =>
        /\ probe.sum["changeArc"] = StatScale * numArcs(Cur)
        /\ probe.sum["changeReciprocity"] = StatScale * mutualPairs(Cur)
        /\ probe.sum = sumInOrder(arcsOf(Cur), EmptyGraph, NoProbe.sum)

\* a graph with a mutual pair, built with the arc 2 -> 1 before 1 -> 2
C22_Witness ==
    /\ probe.stage = "idle"
    /\ probe.i = 1 /\ probe.j = 2
    /\ isArc(Cur, 2, 1)
    /\ numArcs(Cur) >= 3
    /\ probe.sum["changeReciprocity"] >= StatScale
    /\ probe.sum["changeAltKTrianglesT"] > 0

\* D0, the drift of theta and the rows of thetamatrix after k inner steps of
\* a call of algorithm_EE with M inner iterations that starts with D0init
\* and in which BasicSampler accepts nothing
RECURSIVE noAcceptAfter(_, _, _)
noAcceptAfter(D0init, M, k) ==
    IF k = 0
    THEN [D0 |-> D0init, drift |-> ZeroDrift,
          rows |-> [l \in Stats |-> "none"]]
    ELSE LET p == noAcceptAfter(D0init, M, k - 1)
             newOuter == k - 1 > 0 /\ (k - 1) % M = 0
             D0 == IF newOuter
                   THEN [l \in Stats |-> D0ClassAfter(p.D0[l], p.rows[l])]
                   ELSE p.D0
             rows == IF newOuter THEN [l \in Stats |-> "none"] ELSE p.rows
             step == [l \in Stats |-> stepClassEE(0, D0[l])]
             drift == [l \in Stats |-> addClass(p.drift[l], step[l])]
         IN  [D0 |-> D0, drift |-> drift,
              rows |-> [l \in Stats |->
                           rowClass(rows[l], drift[l], step[l])]]

\* the theta written so far by algorithm_EE is the theta of a call in which
\* nothing is accepted
ThetaAsWithoutAccepts ==
    \A n \in DOMAIN theta_outfile :
        /\ theta_outfile[n].theta = algEE.theta
        /\ theta_outfile[n].drift
              = noAcceptAfter(hist.ee.D0, algEE.M, n).drift

\* every accepted proposal of the call of algorithm_EE so far was followed
\* at once by its accepted inverse, and there was one
AllUndone ==
    /\ pc \in {"EE_dzA", "client_EE_ret"}
    /\ hist.ee.undone
    /\ hist.ee.paired
    /\ hist.ee.pending = NoMove

\* C23 as stated: in a call of algorithm_EE in which every accepted proposal
\* is followed at once by its accepted inverse, the two have equal change
\* statistics, dzA is as before the two, and theta is the theta of a call
\* in which nothing is accepted.
C23_Original ==
    AllUndone =>
        /\ hist.ee.equal
        /\ algEE.dzA = ZeroVec
        /\ ThetaAsWithoutAccepts

\* C23: in a call of algorithm_EE in which every accepted proposal is
\* followed at once by its accepted inverse, the two have equal change
\* statistics and dzA is as before the two; theta is the theta of a call in
\* which nothing is accepted when the two of every pair are accepted in the
\* same call of BasicSampler (between two calls theta steps by the dzA that
\* holds the first of the two).
C23_UndoneWithinCalls ==
    AllUndone =>
        /\ hist.ee.equal
        /\ algEE.dzA = ZeroVec
        /\ ~hist.ee.split => ThetaAsWithoutAccepts

\* a finished call whose accepted proposals are an arc added and deleted
\* again within one call of BasicSampler, theta staying finite
C23_Witness ==
    /\ AllUndone
    /\ pc = "client_EE_ret"
    /\ ~hist.ee.split
    /\ Len(theta_outfile) = 2
    /\ \A l \in Stats : algEE.drift[l] = "zero"
    /\ ret.addChangeStats[1] > 0

\* an iteration of Algorithm S updates theta
StepOfS == pc = "S_ret" /\ pc' = "S_loop"

\* C24: in every iteration of Algorithm S the step applied to theta_l is
\* sign(delChangeStats_l - addChangeStats_l) * da_l * dzA_l^2, da_l being
\* ACA / sumChangeStats_l^2 or 0 when sumChangeStats_l is 0, replaced by
\* MAXSTEP when it is greater than MAXSTEP and applied as it is otherwise,
\* a negative step included (steps in units of 1/ThetaScale, ACA and
\* MAXSTEP being ThetaDen units, and the quotient exact in these units).
C24_StepOfS ==
    [][StepOfS =>
          \A l \in Stats :
             LET step == algS'.theta[l] - algS.theta[l]
                 dz == ret.delChangeStats[l] - ret.addChangeStats[l]
                 total == ret.addChangeStats[l] + ret.delChangeStats[l]
                 square == IF total = 0 THEN 0
                           ELSE (ThetaDen * dz * dz) \div (total * total)
                 raw == IF dz > 0 THEN square
                        ELSE IF dz < 0 THEN -square ELSE 0
             IN  /\ total # 0 => (ThetaDen * dz * dz) % (total * total) = 0
                 /\ step = IF raw > ThetaDen THEN ThetaDen ELSE raw
                 /\ step <= ThetaDen
                 /\ raw < 0 => step = raw]_vars

\* Algorithm S has applied a negative step to the Arc parameter and a
\* positive one to another
C24_Witness ==
    /\ pc = "S_loop"
    /\ algS.t >= 1
    /\ algS.theta[1] < 0
    /\ \E l \in Stats : algS.theta[l] > 0

\* |x|
Abs(x) == IF x < 0 THEN -x ELSE x

\* da_l * dzA_l^2 of the iteration of Algorithm S that ends, in units of
\* 1/ThetaScale
SquareTermOfS(l) ==
    LET dz == ret.delChangeStats[l] - ret.addChangeStats[l]
        total == ret.addChangeStats[l] + ret.delChangeStats[l]
    IN  IF total = 0 THEN 0 ELSE (ThetaDen * dz * dz) \div (total * total)

InClientEE == InAlgorithmEE \/ pc = "client_EE_ret"

\* C25: in Algorithm EE dzA is zero before the first inner step and is
\* never reset: after every inner step, in the first outer iteration and in
\* those after it, it is the sum over all the proposals accepted so far of
\* their change statistics, added for an arc added and subtracted for an arc
\* deleted, that is the sum over the calls of BasicSampler so far of
\* addChangeStats - delChangeStats; the rows of the dzA trace hold it.
C25_DzAAccumulates ==
    InClientEE =>
        /\ algEE.dzA = hist.ee.sum
        /\ algEE.t = 0 /\ pc # "EE_dzA" => algEE.dzA = ZeroVec
        /\ pc \in {"EE_inner", "EE_outer", "client_EE_ret"} /\ algEE.t > 0 =>
              dzA_outfile[algEE.t].dzA = algEE.dzA

\* the second outer iteration has added to a dzA that the first left
\* non-zero
C25_Witness ==
    /\ pc = "EE_dzA"
    /\ algEE.touter = 1
    /\ algEE.t = 1
    /\ dzA_outfile[1].dzA # ZeroVec
    /\ algEE.dzA # dzA_outfile[1].dzA
    /\ algEE.dzA # dzAAfter(ZeroVec, ret.addChangeStats, ret.delChangeStats)

\* C26: in every inner step of Algorithm EE, for every l with D0_l > 0, the
\* step of theta_l is not positive when the accumulated dzA_l > 0, not
\* negative when dzA_l < 0, and theta_l is unchanged when dzA_l = 0.
C26_StepAgainstDzA ==
    pc = "EE_dzA" =>
        \A l \in Stats :
            algEE.D0[l] \in {"pos", "pinf"} =>
                /\ algEE.dzA[l] > 0 =>
                      algEE.theta_step[l] \in {"neg", "ninf", "zero"}
                /\ algEE.dzA[l] < 0 =>
                      algEE.theta_step[l] \in {"pos", "pinf", "zero"}
                /\ algEE.dzA[l] = 0 => algEE.theta_step[l] = "zero"

\* algorithm_EE is between two calls of BasicSampler with dzA up to date, or
\* has returned to the client
BetweenEESteps == pc \in {"EE_dzA", "EE_inner", "EE_outer", "client_EE_ret"}

\* C29: with Arc and Reciprocity the first two statistics of Algorithm EE,
\* after every inner step the Arc coordinate of dzA is the number of arcs
\* of the graph minus the number when Algorithm EE started, and the
\* Reciprocity coordinate is the number of mutual pairs minus the number at
\* the start.
C29_DzACountsArcs ==
    BetweenEESteps =>
        /\ changestats_func_list[1] = "changeArc"
        /\ changestats_func_list[2] = "changeReciprocity"
        /\ algEE.dzA[1] = numArcs(Cur) - numArcs(hist.ee.entry)
        /\ algEE.dzA[2] = mutualPairs(Cur) - mutualPairs(hist.ee.entry)

\* after two inner steps the graph has lost its mutual pair and has as many
\* arcs as at the start
C29_Witness ==
    /\ pc = "EE_dzA"
    /\ algEE.t = 1
    /\ algEE.dzA[1] = 0
    /\ algEE.dzA[2] = -1
    /\ Cur # hist.ee.entry

\* Digraph.__init__ has read the arc lines of a file without raising
Loaded == pc \in {"load_attrs", "run"} /\ exc = ""

\* C27: after the loader has accepted a network file without self-loop
\* lines, one that lists an arc on more than one line included, the three
\* two-path matrices hold the counts of the loaded adjacency (u # v):
\* MixTwoPathMatrix the paths u -> w -> v, OutTwoPathMatrix the nodes w with
\* w -> u and w -> v, InTwoPathMatrix the nodes w with u -> w and v -> w.
C27_LoadedMatricesMatch ==
    (Loaded /\ \A i \in Nodes : i \notin G[i]) =>
        \A u \in Nodes, v \in Nodes :
            u # v => /\ MixTwoPathMatrix[u, v] = MixCount(u, v)
                     /\ OutTwoPathMatrix[u, v] = InCount(u, v)
                     /\ InTwoPathMatrix[u, v] = OutCount(u, v)

\* BasicSampler is at a proposal
InSampler == pc \in {"sampler_loop", "sampler_stats"}

\* C28: during a call of BasicSampler on a graph built by insertArc and
\* removeArc within their preconditions, every step leaves the Digraph as
\* it is, or calls insertArc(i, j) with i # j and the arc absent, or calls
\* removeArc(i, j) with the arc present, (i, j) being the pair of the
\* proposal; and at every point of a call with performMove False the
\* Digraph is the one at the entry of the call, or that one without the arc
\* of the delete proposal in progress.
C28_SamplerKeepsPreconditions ==
    /\ [][InSampler =>
             LET i == sampler'.i
                 j == sampler'.j
             IN  \/ Cur' = Cur
                 \/ /\ i # j
                    /\ ~isArc(Cur, i, j)
                    /\ Cur' = insertArc(Cur, i, j)
                 \/ /\ isArc(Cur, i, j)
                    /\ Cur' = removeArc(Cur, i, j)]_vars
    /\ []((InSampler /\ ~sampler.performMove) =>
             \/ Cur = hist.entry
             \/ /\ pc = "sampler_stats"
                /\ sampler.isDelete
                /\ isArc(hist.entry, sampler.i, sampler.j)
                /\ Cur = removeArc(hist.entry, sampler.i, sampler.j))

\* in a call with performMove False the second proposal, a delete, is in
\* progress after an accepted first one: the graph lacks that arc only
C28_Witness ==
    /\ pc = "sampler_stats"
    /\ ~sampler.performMove
    /\ sampler.isDelete
    /\ sampler.k = 1
    /\ sampler.accepted = 1
    /\ Cur # hist.entry
    /\ numArcs(Cur) >= 2

====
